---- MODULE Spec2Model ----
(***************************************************************************)
(* ShippingCalculator (src/calculator.py): the tiered tariff lookups, the  *)
(* rate computation calculate_shipping_rate and the zone resolution        *)
(* get_zone_name_from_loc, as a state machine over one calculator object.  *)
(*                                                                         *)
(* Python values are records [k, sg, n, d]:                                *)
(*   k = "none"  None                                                      *)
(*   k = "str"   a non-empty, non-numeric string ("abc")                   *)
(*   k = "list"  an unhashable, non-numeric object ([1])                   *)
(*   k = "fin"   a finite number  sg * n / (product of d)                  *)
(*   k = "inf"   float infinity of sign sg                                 *)
(*   k = "nan"   float NaN                                                 *)
(* n is an unbounded natural held as a little-endian sequence of digits, d *)
(* a sequence of small factors.  A finite number is an int or a double     *)
(* (IEEE 754 binary64): an arithmetic operation computes the exact result  *)
(* and rounds it to the nearest double, ties to even (ToDouble).  The      *)
(* magnitudes that occur are far from the overflow and subnormal ranges.   *)
(***************************************************************************)
EXTENDS Integers, Sequences, FiniteSets, TLC

(***************************************************************************)
(* Unbounded naturals: little-endian sequences of 15-bit digits, no        *)
(* leading zeros.                                                          *)
(***************************************************************************)
Base == 2 ^ 15

RECURSIVE BigOf(_)
BigOf(x) == IF x = 0 THEN <<>> ELSE <<x % Base>> \o BigOf(x \div Base)

RestOf(a) == IF a = <<>> THEN <<>> ELSE Tail(a)
DigitOf(a) == IF a = <<>> THEN 0 ELSE Head(a)
PushDigit(x, a) == IF x = 0 /\ a = <<>> THEN <<>> ELSE <<x>> \o a

RECURSIVE BAddC(_, _, _)
BAddC(a, b, c) ==
    IF a = <<>> /\ b = <<>> THEN BigOf(c)
    ELSE LET x == DigitOf(a) + DigitOf(b) + c
         IN  PushDigit(x % Base, BAddC(RestOf(a), RestOf(b), x \div Base))

BAdd(a, b) == BAddC(a, b, 0)

\* a - b - c for a >= b + c
RECURSIVE BSubC(_, _, _)
BSubC(a, b, c) ==
    IF a = <<>> THEN <<>>
    ELSE LET x == DigitOf(a) - DigitOf(b) - c
         IN  IF x < 0 THEN PushDigit(x + Base, BSubC(RestOf(a), RestOf(b), 1))
                      ELSE PushDigit(x, BSubC(RestOf(a), RestOf(b), 0))

BSub(a, b) == BSubC(a, b, 0)

\* a * m + c, for a small factor m (m * Base fits a machine integer)
RECURSIVE BMulSmallC(_, _, _)
BMulSmallC(a, m, c) ==
    IF a = <<>> THEN BigOf(c)
    ELSE LET x == Head(a) * m + c
         IN  PushDigit(x % Base, BMulSmallC(Tail(a), m, x \div Base))

BMulSmall(a, m) == BMulSmallC(a, m, 0)

RECURSIVE BMul(_, _)
BMul(a, b) ==
    IF a = <<>> \/ b = <<>> THEN <<>>
    ELSE BAdd(BMulSmall(b, Head(a)), PushDigit(0, BMul(Tail(a), b)))

\* -1, 0, 1 as a < b, a = b, a > b
RECURSIVE BCmpFrom(_, _, _)
BCmpFrom(a, b, i) ==
    IF i = 0 THEN 0
    ELSE IF a[i] < b[i] THEN -1
    ELSE IF a[i] > b[i] THEN 1
    ELSE BCmpFrom(a, b, i - 1)

BCmp(a, b) ==
    IF Len(a) < Len(b) THEN -1
    ELSE IF Len(a) > Len(b) THEN 1
    ELSE BCmpFrom(a, b, Len(a))

\* quotient and remainder of a by a small m > 0
RECURSIVE BDivSmall(_, _)
BDivSmall(a, m) ==
    IF a = <<>> THEN [q |-> <<>>, r |-> 0]
    ELSE LET hi  == BDivSmall(Tail(a), m)
             cur == hi.r * Base + Head(a)
         IN  [q |-> PushDigit(cur \div m, hi.q), r |-> cur % m]

RECURSIVE BMulList(_, _)
BMulList(a, L) ==
    IF a = <<>> \/ L = <<>> THEN a ELSE BMulList(BMulSmall(a, Head(L)), Tail(L))

\* floor(a / product of L), and whether the division was exact
RECURSIVE BDivList(_, _)
BDivList(a, L) ==
    IF a = <<>> \/ L = <<>> THEN [q |-> a, exact |-> TRUE]
    ELSE LET one  == BDivSmall(a, Head(L))
             rest == BDivList(one.q, Tail(L))
         IN  [q |-> rest.q, exact |-> rest.exact /\ one.r = 0]

BIsOdd(a) == a # <<>> /\ Head(a) % 2 = 1

(***************************************************************************)
(* Python values and float arithmetic.                                     *)
(***************************************************************************)
Val(k, sg, n, d) == [k |-> k, sg |-> sg, n |-> n, d |-> d]
None   == Val("none", 1, <<>>, <<>>)
Str    == Val("str", 1, <<>>, <<>>)
List   == Val("list", 1, <<>>, <<>>)
NaN    == Val("nan", 1, <<>>, <<>>)
Inf    == Val("inf", 1, <<>>, <<>>)
NegInf == Val("inf", -1, <<>>, <<>>)
Fin(sg, n, d) == Val("fin", IF n = <<>> THEN 1 ELSE sg, n, d)
\* the int p
Num(p) == Fin(IF p < 0 THEN -1 ELSE 1, BigOf(IF p < 0 THEN -p ELSE p), <<>>)

\* 2^k as a sequence of small factors
Twos(k) == [j \in 1..(k \div 15) |-> Base] \o (IF k % 15 = 0 THEN <<>> ELSE <<2 ^ (k % 15)>>)

\* a * 2^k
Shift(a, k) ==
    IF a = <<>> THEN <<>> ELSE [j \in 1..(k \div 15) |-> 0] \o BMulSmall(a, 2 ^ (k % 15))

\* the number of bits of a natural
BitLen(a) ==
    IF a = <<>> THEN 0
    ELSE 15 * (Len(a) - 1) + Cardinality({i \in 0..14 : 2 ^ i <= a[Len(a)]})

\* the number of low zero bits of a natural a > 0
TrailingZeros(a) ==
    LET z == Cardinality({i \in DOMAIN a : \A j \in 1..i : a[j] = 0})
    IN  15 * z + Cardinality({i \in 1..14 : a[z + 1] % (2 ^ i) = 0})

\* The double (IEEE 754 binary64) nearest to a finite number, ties to even.
\* A whole number of at most 53 bits is itself.  Otherwise the quotient is
\* taken with at least two bits more than the 53 of the mantissa, and the
\* bits dropped decide the rounding.  The result is m / 2^k in lowest terms.
Least(x, y) == IF x < y THEN x ELSE y

\* the bits of the factors of a denominator, each counted in full
DenBits(d) == Cardinality({<<i, j>> \in (DOMAIN d) \X (0..15) : 2 ^ j <= d[i]})

\* m / 2^e with t low zero bits of m cancelled
Reduced(sg, m, e, t) == Fin(sg, BDivList(m, Twos(t)).q, Twos(e - t))

\* m * 2^drop / 2^s in lowest terms
Scaled(sg, m, s, drop) ==
    IF drop >= s THEN Fin(sg, Shift(m, drop - s), <<>>)
    ELSE Reduced(sg, m, s - drop, Least(TrailingZeros(m), s - drop))

\* half of h, rounded to even when h is odd and nothing was cut off below it
HalfEven(h, m0, exact) ==
    IF BIsOdd(h) /\ (~exact \/ BIsOdd(m0)) THEN BAdd(m0, <<1>>) ELSE m0

\* the 53 bits kept of a quotient of 54 bits h2
Mantissa(h2, exact) == HalfEven(h2.q, BDivSmall(h2.q, 2).q, h2.exact /\ exact)

\* the quotient q of drop + 53 bits, rounded to 53
Rounded(sg, q, s, drop) ==
    Scaled(sg, Mantissa(BDivList(q.q, Twos(drop - 1)), q.exact), s, drop)

Quotient(sg, q, s) == Rounded(sg, q, s, BitLen(q.q) - 53)

\* a * 2^s / 2^s with s = room when that is positive
Inexact(a, room) ==
    IF room > 0 THEN Quotient(a.sg, BDivList(Shift(a.n, room), a.d), room)
    ELSE Quotient(a.sg, BDivList(a.n, a.d), 0)

WholeOr(a, whole) ==
    IF whole.exact /\ BitLen(whole.q) <= 53 THEN Fin(a.sg, whole.q, <<>>)
    ELSE Inexact(a, 55 + DenBits(a.d) - BitLen(a.n))

ToDouble(a) ==
    IF a.k # "fin" THEN a
    ELSE IF a.n = <<>> THEN Fin(1, <<>>, <<>>)
    ELSE WholeOr(a, BDivList(a.n, a.d))

\* the float literal p / q for integers p and 0 < q < 2^15
Rat(p, q) == ToDouble(Fin(IF p < 0 THEN -1 ELSE 1, BigOf(IF p < 0 THEN -p ELSE p),
                          IF q = 1 THEN <<>> ELSE <<q>>))

IsNumber(v) == v.k \in {"fin", "inf", "nan"}
IsZero(v) == v.k = "fin" /\ v.n = <<>>
\* the value is a whole number
IsIntegral(v) == v.k = "fin" /\ BDivList(v.n, v.d).exact

\* -1, 0, 1 for two finite numbers
RCmpFin(a, b) ==
    IF a.sg # b.sg THEN (IF a.sg < b.sg THEN -1 ELSE 1)
    ELSE a.sg * BCmp(BMulList(a.n, b.d), BMulList(b.n, a.d))

Rank(v) == IF v.k = "inf" THEN v.sg ELSE 0

\* Python's a < b on floats: False whenever a NaN is involved
PyLt(a, b) ==
    IF a.k = "nan" \/ b.k = "nan" THEN FALSE
    ELSE IF Rank(a) # Rank(b) THEN Rank(a) < Rank(b)
    ELSE IF a.k = "inf" THEN FALSE
    ELSE RCmpFin(a, b) < 0

PyLe(a, b) ==
    IF a.k = "nan" \/ b.k = "nan" THEN FALSE
    ELSE IF Rank(a) # Rank(b) THEN Rank(a) < Rank(b)
    ELSE IF a.k = "inf" THEN TRUE
    ELSE RCmpFin(a, b) <= 0

PyGt(a, b) == PyLt(b, a)
PyGe(a, b) == PyLe(b, a)
PyEq(a, b) == PyLe(a, b) /\ PyLe(b, a)

\* max(a, b): the first argument unless the second is greater
PyMax(a, b) == IF PyGt(b, a) THEN b ELSE a

PyMul(a, b) ==
    IF a.k = "nan" \/ b.k = "nan" THEN NaN
    ELSE IF a.k = "inf" \/ b.k = "inf"
         THEN IF IsZero(a) \/ IsZero(b) THEN NaN
              ELSE Val("inf", a.sg * b.sg, <<>>, <<>>)
    ELSE ToDouble(Fin(a.sg * b.sg, BMul(a.n, b.n), a.d \o b.d))

\* a + b, exactly; the factors the two denominators start with alike are kept once
RAddFin(a, b) ==
    LET same == Cardinality({i \in DOMAIN a.d : i <= Len(b.d) /\ \A j \in 1..i : a.d[j] = b.d[j]})
        da == SubSeq(a.d, same + 1, Len(a.d))
        db == SubSeq(b.d, same + 1, Len(b.d))
        x == BMulList(a.n, db)
        y == BMulList(b.n, da)
        d == a.d \o db
        c == BCmp(x, y)
    IN  IF a.sg = b.sg THEN Fin(a.sg, BAdd(x, y), d)
        ELSE IF c > 0 THEN Fin(a.sg, BSub(x, y), d)
        ELSE IF c < 0 THEN Fin(b.sg, BSub(y, x), d)
        ELSE Fin(1, <<>>, d)

PyAdd(a, b) ==
    IF a.k = "nan" \/ b.k = "nan" THEN NaN
    ELSE IF a.k = "inf" /\ b.k = "inf" THEN (IF a.sg = b.sg THEN a ELSE NaN)
    ELSE IF a.k = "inf" THEN a
    ELSE IF b.k = "inf" THEN b
    ELSE ToDouble(RAddFin(a, b))

\* round-half-to-even of a finite number
RoundFin(a) ==
    LET r    == BDivList(BMulSmall(a.n, 2), a.d)
        half == BDivSmall(r.q, 2).q
        m    == IF ~BIsOdd(r.q) THEN half
                ELSE IF r.exact THEN (IF BIsOdd(half) THEN BAdd(half, <<1>>) ELSE half)
                ELSE BAdd(half, <<1>>)
    IN  Fin(a.sg, m, <<>>)

\* The outcome of an operation that may raise: exc = "ok" and the value, or
\* the exception's class
Ok(v) == [exc |-> "ok", v |-> v]
Raise(e) == [exc |-> e, v |-> None]

\* round(x): int, ValueError on NaN, OverflowError on infinity
PyRound(x) ==
    IF x.k = "fin" THEN Ok(RoundFin(x))
    ELSE IF x.k = "nan" THEN Raise("ValueError")
    ELSE IF x.k = "inf" THEN Raise("OverflowError")
    ELSE Raise("TypeError")

\* float(x)
PyFloat(x) ==
    IF IsNumber(x) THEN Ok(x)
    ELSE IF x.k = "str" THEN Raise("ValueError")
    ELSE Raise("TypeError")

\* int(x): truncation toward zero
PyInt(x) ==
    IF x.k = "fin" THEN Ok(Fin(x.sg, BDivList(x.n, x.d).q, <<>>))
    ELSE IF x.k = "nan" THEN Raise("ValueError")
    ELSE IF x.k = "inf" THEN Raise("OverflowError")
    ELSE IF x.k = "str" THEN Raise("ValueError")
    ELSE Raise("TypeError")

\* truthiness: None, 0 and 0.0 are false; NaN and non-empty strings/lists true
Truthy(x) == ~(x.k = "none" \/ IsZero(x))
\* x or y
PyOr(x, y) == IF Truthy(x) THEN x ELSE y

\* a / b for a finite divisor b > 0 whose numerator is a small integer
BToInt(a) == IF a = <<>> THEN 0
             ELSE IF Len(a) = 1 THEN a[1]
             ELSE a[1] + Base * a[2]

PyDiv(a, b) ==
    IF a.k = "nan" THEN NaN
    ELSE IF a.k = "inf" THEN Val("inf", a.sg * b.sg, <<>>, <<>>)
    ELSE ToDouble(Fin(a.sg * b.sg, BMulList(a.n, b.d), a.d \o <<BToInt(b.n)>>))

(***************************************************************************)
(* Text: a str is a sequence of one-character strings.  The letters        *)
(* D-with-stroke (U+0110, U+0111) are written "DD" and "dd", in names too. *)
(***************************************************************************)
Text(s) == [k |-> "text", s |-> s]
TNone   == [k |-> "none", s |-> <<>>]
\* a truthy value that is not a str (the int 5)
TInt    == [k |-> "int", s |-> <<>>]

LowerMap ==
    ("A" :> "a" @@ "B" :> "b" @@ "C" :> "c" @@ "D" :> "d" @@ "G" :> "g"
     @@ "H" :> "h" @@ "I" :> "i" @@ "L" :> "l" @@ "M" :> "m" @@ "N" :> "n"
     @@ "P" :> "p" @@ "Q" :> "q" @@ "S" :> "s" @@ "T" :> "t" @@ "V" :> "v"
     @@ "DD" :> "dd" @@ "À" :> "à" @@ "Ộ" :> "ộ" @@ "Ẵ" :> "ẵ"
     @@ "F" :> "f" @@ "K" :> "k" @@ "X" :> "x")

LowerChar(c) == IF c \in DOMAIN LowerMap THEN LowerMap[c] ELSE c
\* str.lower()
Lower(s) == [i \in 1..Len(s) |-> LowerChar(s[i])]

Whitespace == {" ", "\t", "\n"}
RECURSIVE LStrip(_)
LStrip(s) == IF s # <<>> /\ Head(s) \in Whitespace THEN LStrip(Tail(s)) ELSE s
RECURSIVE RStrip(_)
RStrip(s) == IF s # <<>> /\ s[Len(s)] \in Whitespace
             THEN RStrip(SubSeq(s, 1, Len(s) - 1)) ELSE s
\* str.strip()
Strip(s) == RStrip(LStrip(s))

\* needle in hay
Contains(needle, hay) ==
    \E i \in 0..(Len(hay) - Len(needle)) : SubSeq(hay, i + 1, i + Len(needle)) = needle

(***************************************************************************)
(* Names (zone, goods, vehicle): None, a str, or an unhashable list.       *)
(***************************************************************************)
Name(s)  == [k |-> "str", s |-> s]
NameNone == [k |-> "none", s |-> ""]
NameList == [k |-> "list", s |-> ""]

(***************************************************************************)
(* DEFAULT_CONFIG                                                          *)
(***************************************************************************)
\* The numbers of the tables are written as fractions: a band list from
\* <<threshold, p, q>> for [threshold, p / q], a dict from name :> <<p, q>>
\* for name: p / q (q = 1 for an int)
Bands(t) == [i \in DOMAIN t |-> <<Num(t[i][1]), Rat(t[i][2], t[i][3])>>]
Floats(t) == [x \in DOMAIN t |-> Rat(t[x][1], t[x][2])]

km_coefficients ==
    Bands(<<
       <<0, 35, 100>>, <<50, 35, 100>>, <<100, 4, 10>>,
       <<150, 45, 100>>, <<200, 5, 10>>, <<250, 55, 100>>,
       <<300, 6, 10>>, <<350, 65, 100>>, <<400, 7, 10>>,
       <<450, 75, 100>>, <<500, 8, 10>>, <<550, 825, 1000>>,
       <<600, 85, 100>>, <<650, 875, 1000>>, <<700, 9, 10>>,
       <<750, 925, 1000>>, <<800, 95, 100>>, <<850, 975, 1000>>,
       <<900, 10, 10>>, <<950, 1025, 1000>>, <<1000, 105, 100>>,
       <<1100, 1075, 1000>>, <<1200, 11, 10>>, <<1300, 1125, 1000>>,
       <<1400, 115, 100>>, <<1500, 1175, 1000>>, <<1600, 12, 10>>,
       <<1700, 1225, 1000>>, <<1800, 125, 100>>, <<1900, 1275, 1000>>,
       <<2000, 13, 10>>, <<2100, 1325, 1000>>, <<2200, 135, 100>>,
       <<2300, 1375, 1000>>, <<2400, 14, 10>>, <<2500, 16, 10>>
    >>)

zone_coefficients ==
    Floats(("Vùng 1" :> <<14, 10>>
     @@ "Vùng 5" :> <<13, 10>>
     @@ "Vùng còn lại" :> <<10, 10>>
     @@ "Vùng huyện ddảo" :> <<15, 10>>))

goods_coefficients ==
    Floats(("Hàng trần VLXD" :> <<8, 10>>
     @@ "Hàng dễ vỡ" :> <<15, 10>>
     @@ "Hàng tiêu dùng" :> <<10, 10>>
     @@ "Hàng ddông lạnh" :> <<15, 10>>
     @@ "Hàng hóa chất" :> <<15, 10>>
     @@ "Hàng ddóng hộp tiêu dùng" :> <<10, 10>>
     @@ "Lúa thóc" :> <<65, 100>>))

vehicle_coefficients ==
    Floats(("Tải" :> <<10, 10>>
     @@ "DDầu kéo" :> <<125, 100>>
     @@ "Mooc sàn" :> <<15, 10>>
     @@ "Fooc" :> <<225, 100>>))

size_coefficients ==
    Bands(<<
       <<0, 10, 10>>, <<200, 12, 10>>, <<300, 13, 10>>,
       <<400, 14, 10>>, <<600, 15, 10>>, <<800, 18, 10>>,
       <<1100, 20, 10>>
    >>)

constants ==
    Floats(("full_vehicle_rate" :> <<407605, 100>>
     @@ "delivery_vinh_base" :> <<5445000, 1>>
     @@ "delivery_vinh_rate" :> <<18, 100>>
     @@ "vol_weight_factor" :> <<6000, 1>>))

\* in dict iteration (insertion) order
zone_mapping ==
    <<
       [key |-> <<"H", "à", " ", "N", "ộ", "i">>, zone |-> "Vùng 1"],
       [key |-> <<"T", "P", " ", "H", "C", "M">>, zone |-> "Vùng 1"],
       [key |-> <<"H", "ả", "i", " ", "P", "h", "ò", "n", "g">>, zone |-> "Vùng 1"],
       [key |-> <<"DD", "à", " ", "N", "ẵ", "n", "g">>, zone |-> "Vùng 5"],
       [key |-> <<"C", "ầ", "n", " ", "T", "h", "ơ">>, zone |-> "Vùng 5"],
       [key |-> <<"P", "h", "ú", " ", "Q", "u", "ố", "c">>, zone |-> "Vùng huyện ddảo"],
       [key |-> <<"C", "ô", "n", " ", "DD", "ả", "o">>, zone |-> "Vùng huyện ddảo"],
       [key |-> <<"L", "ý", " ", "S", "ơ", "n">>, zone |-> "Vùng huyện ddảo"],
       [key |-> <<"N", "g", "h", "ệ", " ", "A", "n">>, zone |-> "Vùng còn lại"],
       [key |-> <<"T", "h", "á", "i", " ", "H", "ò", "a">>, zone |-> "Vùng còn lại"],
       [key |-> <<"T", "h", "a", "n", "h", " ", "H", "ó", "a">>, zone |-> "Vùng còn lại"],
       [key |-> <<"B", "ắ", "c", " ", "G", "i", "a", "n", "g">>, zone |-> "Vùng còn lại"],
       [key |-> <<"B", "ì", "n", "h", " ", "D", "ư", "ơ", "n", "g">>, zone |-> "Vùng còn lại"]
    >>

DEFAULT_CONFIG ==
    ("km_coefficients" :> km_coefficients
     @@ "zone_coefficients" :> zone_coefficients
     @@ "goods_coefficients" :> goods_coefficients
     @@ "vehicle_coefficients" :> vehicle_coefficients
     @@ "size_coefficients" :> size_coefficients
     @@ "constants" :> constants
     @@ "zone_mapping" :> zone_mapping)

\* a dict without one key, and with one key rebound
Without(f, key) == [x \in DOMAIN f \ {key} |-> f[x]]
With(f, key, v) == [x \in DOMAIN f \cup {key} |-> IF x = key THEN v ELSE f[x]]

(***************************************************************************)
(* The lookups of ShippingCalculator, on a configuration cfg (self.config) *)
(***************************************************************************)
\* sorted(bands, key=lambda x: x[0]): a stable insertion sort
RECURSIVE InsertBand(_, _)
InsertBand(x, sorted) ==
    IF sorted = <<>> \/ RCmpFin(sorted[Len(sorted)][1], x[1]) <= 0
    THEN Append(sorted, x)
    ELSE Append(InsertBand(x, SubSeq(sorted, 1, Len(sorted) - 1)), sorted[Len(sorted)])

\* sorted() left out: the bands in the order the table holds them
StoredOrder(bands) == bands

RECURSIVE SortBands(_)
SortBands(bands) ==
    IF bands = <<>> THEN <<>>
    ELSE InsertBand(bands[Len(bands)], SortBands(SubSeq(bands, 1, Len(bands) - 1)))

\* the band loop with "value > threshold" in place of "value >= threshold"
RECURSIVE BandScanStrict(_, _, _, _)
BandScanStrict(coeffs, v, i, cur) ==
    IF i > Len(coeffs) THEN cur
    ELSE IF PyGt(v, coeffs[i][1]) THEN BandScanStrict(coeffs, v, i + 1, coeffs[i][2])
    ELSE cur

\* the for loop of get_km_coefficient / get_size_coefficient from band i on
RECURSIVE BandScan(_, _, _, _)
BandScan(coeffs, v, i, cur) ==
    IF i > Len(coeffs) THEN cur
    ELSE IF PyGe(v, coeffs[i][1]) THEN BandScan(coeffs, v, i + 1, coeffs[i][2])
    ELSE cur

BandLookup(cfg, table, v) ==
    IF table \notin DOMAIN cfg THEN Raise("KeyError")
    ELSE LET coeffs == SortBands(cfg[table])
         IN  IF coeffs = <<>> THEN Raise("IndexError")
             ELSE IF ~IsNumber(v) THEN Raise("TypeError")
             ELSE Ok(BandScan(coeffs, v, 1, coeffs[1][2]))

get_km_coefficient(cfg, distance) == BandLookup(cfg, "km_coefficients", distance)

get_size_coefficient(cfg, max_dimension) ==
    BandLookup(cfg, "size_coefficients", PyOr(max_dimension, Num(0)))

\* table[name] in place of table.get(name, 1.0): an absent name is a KeyError
NameLookupStrict(cfg, table, name) ==
    IF table \notin DOMAIN cfg THEN Raise("KeyError")
    ELSE IF name.k = "list" THEN Raise("TypeError")
    ELSE IF name.k = "str" /\ name.s \in DOMAIN cfg[table] THEN Ok(cfg[table][name.s])
    ELSE Raise("KeyError")

\* dict.get(name, 1.0) on the table cfg[table]
NameLookup(cfg, table, name) ==
    IF table \notin DOMAIN cfg THEN Raise("KeyError")
    ELSE IF name.k = "list" THEN Raise("TypeError")
    ELSE IF name.k = "str" /\ name.s \in DOMAIN cfg[table] THEN Ok(cfg[table][name.s])
    ELSE Ok(Rat(10, 10))

get_zone_coefficient(cfg, zone_name) == NameLookup(cfg, "zone_coefficients", zone_name)
get_goods_coefficient(cfg, goods_type) == NameLookup(cfg, "goods_coefficients", goods_type)
get_vehicle_coefficient(cfg, vehicle_type) == NameLookup(cfg, "vehicle_coefficients", vehicle_type)

\* the brackets with "<=" at their upper ends: a boundary weight takes the
\* lighter bracket's rate
get_base_rate_closed(chargeable_weight_kg) ==
    IF PyLe(chargeable_weight_kg, Num(1000)) THEN Rat(523078, 100)
    ELSE IF PyLe(chargeable_weight_kg, Num(3000)) THEN Rat(313078, 100)
    ELSE IF PyLe(chargeable_weight_kg, Num(10000)) THEN Rat(218078, 100)
    ELSE Rat(120078, 100)

get_base_rate(chargeable_weight_kg) ==
    IF PyLt(chargeable_weight_kg, Num(1000)) THEN Rat(523078, 100)
    ELSE IF PyLe(Num(1000), chargeable_weight_kg) /\ PyLt(chargeable_weight_kg, Num(3000))
         THEN Rat(313078, 100)
    ELSE IF PyLe(Num(3000), chargeable_weight_kg) /\ PyLt(chargeable_weight_kg, Num(10000))
         THEN Rat(218078, 100)
    ELSE Rat(120078, 100)

calculate_weight_from_dimensions(length, width, height, factor) ==
    IF length.k = "none" \/ width.k = "none" \/ height.k = "none" THEN Num(0)
    ELSE IF PyFloat(length).exc # "ok" \/ PyFloat(width).exc # "ok"
            \/ PyFloat(height).exc # "ok" THEN Num(0)
    ELSE PyDiv(PyMul(PyMul(length, width), height),
               IF PyLe(factor, Num(0)) THEN Num(6000) ELSE factor)

DefaultZone == "Vùng còn lại"

\* the mapping loop with "key.lower() == location_lower" in place of "in"
RECURSIVE ZoneScanExact(_, _, _)
ZoneScanExact(zone_map, location_lower, i) ==
    IF i > Len(zone_map) THEN DefaultZone
    ELSE IF Lower(zone_map[i].key) = location_lower THEN zone_map[i].zone
    ELSE ZoneScanExact(zone_map, location_lower, i + 1)

\* the for loop of get_zone_name_from_loc from entry i on
RECURSIVE ZoneScan(_, _, _)
ZoneScan(zone_map, location_lower, i) ==
    IF i > Len(zone_map) THEN DefaultZone
    ELSE IF Contains(Lower(zone_map[i].key), location_lower) THEN zone_map[i].zone
    ELSE ZoneScan(zone_map, location_lower, i + 1)

get_zone_name_from_loc(cfg, location_name) ==
    IF location_name.k = "none" \/ (location_name.k = "text" /\ location_name.s = <<>>)
    THEN Ok(DefaultZone)
    ELSE IF location_name.k # "text" THEN Raise("AttributeError")
    ELSE Ok(ZoneScan(IF "zone_mapping" \in DOMAIN cfg THEN cfg["zone_mapping"] ELSE <<>>,
                     Strip(Lower(location_name.s)), 1))

(***************************************************************************)
(* State.                                                                  *)
(*   config   self.config of the one ShippingCalculator: which             *)
(*            configuration it refers to (see ConfigOf)                    *)
(*   pc       where the current call stands: "idle", "resolve" (a caller   *)
(*            resolving the zones of two locations), the steps of          *)
(*            calculate_shipping_rate "validate", "weight", "coef",        *)
(*            "freight", "fee", "total", "round", then "done" (returned)   *)
(*            or "raised" (left by an uncaught exception)                  *)
(*   form     the two location texts of a caller that resolves zones       *)
(*   args     the arguments of calculate_shipping_rate                     *)
(*   frame    its local variables                                          *)
(*   results  its results dict                                             *)
(*   probe    the last two direct calls of get_km_coefficient or           *)
(*            get_size_coefficient: [fn, value, out]                       *)
(***************************************************************************)
VARIABLES config, pc, form, args, frame, results, probe

vars == <<config, pc, form, args, frame, results, probe>>

\* Configurations by name: the embedded one, and ones a deployment could
\* substitute for it (keys missing, band tables empty, unsorted, with falling
\* coefficients, or starting above zero)
UnsortedBands  == Bands(<<<<100, 4, 10>>, <<0, 35, 100>>, <<50, 35, 100>>>>)
FallingBands   == Bands(<<<<0, 20, 10>>, <<100, 10, 10>>>>)
HighFloorBands == Bands(<<<<50, 5, 10>>, <<100, 7, 10>>>>)

WithBands(cfg, bands) ==
    With(With(cfg, "km_coefficients", bands), "size_coefficients", bands)

\* the configuration called name, cfg being the embedded one
Substitute(name, cfg) ==
    CASE name = "DEFAULT_CONFIG" -> cfg
      [] name = "no constants" -> Without(cfg, "constants")
      [] name = "no full_vehicle_rate" ->
            With(cfg, "constants", Without(cfg["constants"], "full_vehicle_rate"))
      [] name = "no km_coefficients" -> Without(cfg, "km_coefficients")
      [] name = "empty size_coefficients" -> With(cfg, "size_coefficients", <<>>)
      [] name = "unsorted bands" -> WithBands(cfg, UnsortedBands)
      [] name = "falling bands" -> WithBands(cfg, FallingBands)
      [] name = "high floor bands" -> WithBands(cfg, HighFloorBands)

ConfigOf(name) == Substitute(name, DEFAULT_CONFIG)

DefectiveConfigs ==
    {"no constants", "no full_vehicle_rate", "no km_coefficients",
     "empty size_coefficients"}
BandConfigs == {"unsorted bands", "falling bands", "high floor bands"}

self_config == ConfigOf(config)

\* the parameter defaults of calculate_shipping_rate
DefaultArgs ==
    [distance_km |-> None, actual_weight_kg |-> None, quantity |-> Num(1),
     vol_length_cm |-> None, vol_width_cm |-> None, vol_height_cm |-> None,
     pickup_zone_name |-> Name(DefaultZone), delivery_zone_name |-> Name(DefaultZone),
     delivery_point |-> Text(<<>>), goods_type |-> Name("Hàng ddóng hộp tiêu dùng"),
     vehicle_type |-> Name("Tải"), proposed_coefficient |-> Rat(10, 10)]

NoForm == [via |-> "direct", pickup_loc |-> TNone, delivery_loc |-> TNone]

NoFrame ==
    [distance |-> None, actual_weight |-> None, qty |-> None, proposed_coef |-> None,
     chargeable_weight |-> None, km_coef |-> None, max_zone_coef |-> None,
     goods_coef |-> None, vehicle_coef |-> None, size_coef |-> None,
     base_freight |-> None, delivery_fee |-> None, total_cost |-> None]

\* results["error"]: None, or a message, held as its prefix and the class of
\* the exception whose text follows the prefix
NoError == [prefix |-> "None", cause |-> "ok"]
\* results = {"error": None}
NewResults == ("error" :> NoError)

ValidationError == "Lỗi giá trị ddầu vào"
ConfigError     == "Lỗi cấu hình"
SystemError     == "Lỗi hệ thống"

\* the except clauses without the final "except Exception"
HandlerWithoutCatchAll(exc) ==
    IF exc \in {"ValueError", "TypeError"} THEN [caught |-> TRUE, prefix |-> ValidationError]
    ELSE IF exc = "KeyError" THEN [caught |-> TRUE, prefix |-> ConfigError]
    ELSE [caught |-> FALSE, prefix |-> "None"]

\* the except clauses with KeyError listed in the first clause
HandlerKeyErrorFirst(exc) ==
    IF exc \in {"ValueError", "TypeError", "KeyError"}
    THEN [caught |-> TRUE, prefix |-> ValidationError]
    ELSE [caught |-> TRUE, prefix |-> SystemError]

\* the except clauses of calculate_shipping_rate, tried in order: whether one
\* catches the exception class, and the prefix it writes
Handler(exc) ==
    IF exc \in {"ValueError", "TypeError"} THEN [caught |-> TRUE, prefix |-> ValidationError]
    ELSE IF exc = "KeyError" THEN [caught |-> TRUE, prefix |-> ConfigError]
    \* except Exception: every class raised in the try body derives from it
    ELSE [caught |-> TRUE, prefix |-> SystemError]

\* results after exc was raised with results = res
Handled(res, exc) ==
    IF Handler(exc).caught
    THEN With(res, "error", [prefix |-> Handler(exc).prefix, cause |-> exc])
    ELSE res

\* where the call stands then: returned, or left by the exception
AfterRaise(exc) == IF Handler(exc).caught THEN "done" ELSE "raised"

\* the step raised exc
Fail(exc) ==
    /\ results' = Handled(results, exc)
    /\ pc' = AfterRaise(exc)
    /\ UNCHANGED <<probe, config, form, args, frame>>

\* the first exception among outcomes evaluated in order, or "ok"
RECURSIVE FirstExc(_)
FirstExc(outs) ==
    IF outs = <<>> THEN "ok"
    ELSE IF Head(outs).exc # "ok" THEN Head(outs).exc
    ELSE FirstExc(Tail(outs))

\* cfg["constants"][key]
Constant(cfg, key) ==
    IF "constants" \notin DOMAIN cfg THEN Raise("KeyError")
    ELSE IF key \notin DOMAIN cfg["constants"] THEN Raise("KeyError")
    ELSE Ok(cfg["constants"][key])

(***************************************************************************)
(* calculate_shipping_rate, one action per block of the try body.  A block *)
(* that raises runs the matching except clause and the call returns.       *)
(***************************************************************************)
\* "# Validate inputs": the four coercions, in order
Coerced(a) ==
    [distance      |-> PyFloat(a.distance_km),
     actual_weight |-> IF a.actual_weight_kg.k # "none"
                       THEN PyFloat(a.actual_weight_kg) ELSE Ok(Num(0)),
     qty           |-> IF a.quantity.k # "none" THEN PyInt(a.quantity) ELSE Ok(Num(1)),
     proposed_coef |-> IF a.proposed_coefficient.k # "none"
                       THEN PyFloat(a.proposed_coefficient) ELSE Ok(Rat(10, 10))]

Validate ==
    /\ pc = "validate"
    /\ LET c   == Coerced(args)
           exc == FirstExc(<<c.distance, c.actual_weight, c.qty, c.proposed_coef>>)
       IN  IF exc # "ok" THEN Fail(exc)
           ELSE /\ frame' = [frame EXCEPT !.distance = c.distance.v,
                                          !.actual_weight = c.actual_weight.v,
                                          !.qty = c.qty.v,
                                          !.proposed_coef = c.proposed_coef.v]
                /\ pc' = "weight"
                /\ UNCHANGED <<probe, config, form, args, results>>

\* the chargeable weight without "if chargeable_weight <= 0: chargeable_weight = 1"
ChargeableWeightUnfloored(actual_weight_total, vol_weight_total) ==
    IF PyGt(vol_weight_total, Num(0))
    THEN PyMax(actual_weight_total, vol_weight_total)
    ELSE actual_weight_total

\* the chargeable weight with a floor of 1: "if chargeable_weight < 1"
ChargeableWeightFloorOne(actual_weight_total, vol_weight_total) ==
    LET cw == IF PyGt(vol_weight_total, Num(0))
              THEN PyMax(actual_weight_total, vol_weight_total)
              ELSE actual_weight_total
    IN  IF PyLt(cw, Num(1)) THEN Num(1) ELSE cw

\* chargeable weight from the two totals
ChargeableWeight(actual_weight_total, vol_weight_total) ==
    LET cw == IF PyGt(vol_weight_total, Num(0))
              THEN PyMax(actual_weight_total, vol_weight_total)
              ELSE actual_weight_total
    IN  IF PyLe(cw, Num(0)) THEN Num(1) ELSE cw

\* "# Tính cân nặng quy đổi"
Weigh ==
    /\ pc = "weight"
    /\ LET factor == Constant(self_config, "vol_weight_factor")
       IN  IF factor.exc # "ok" THEN Fail(factor.exc)
           ELSE LET vol_weight == calculate_weight_from_dimensions(
                                      args.vol_length_cm, args.vol_width_cm,
                                      args.vol_height_cm, factor.v)
                    vol_weight_total    == PyMul(vol_weight, frame.qty)
                    actual_weight_total == PyMul(frame.actual_weight, frame.qty)
                    chargeable_weight   == ChargeableWeight(actual_weight_total,
                                                            vol_weight_total)
                IN  /\ frame' = [frame EXCEPT !.chargeable_weight = chargeable_weight]
                    /\ results' = results @@ ("chargeable_weight" :> chargeable_weight
                                              @@ "volumetric_weight" :> vol_weight_total
                                              @@ "actual_weight" :> actual_weight_total)
                    /\ pc' = "coef"
                    /\ UNCHANGED <<probe, config, form, args>>

\* max([a or 0, b or 0, c or 0]): numbers compare; a str or list beside a
\* number cannot be compared; three strs (or three lists) can
MaxOfDims(a, b, c) ==
    LET x == PyOr(a, Num(0))
        y == PyOr(b, Num(0))
        z == PyOr(c, Num(0))
    IN  IF IsNumber(x) /\ IsNumber(y) /\ IsNumber(z) THEN Ok(PyMax(PyMax(x, y), z))
        ELSE IF x.k = y.k /\ y.k = z.k THEN Ok(x)
        ELSE Raise("TypeError")

\* the largest dimension, then its size coefficient
SizeCoefficient(cfg, a) ==
    LET m == MaxOfDims(a.vol_length_cm, a.vol_width_cm, a.vol_height_cm)
    IN  IF m.exc # "ok" THEN m ELSE get_size_coefficient(cfg, m.v)

\* "# Lấy hệ số"
Coefs ==
    /\ pc = "coef"
    /\ LET km_coef            == get_km_coefficient(self_config, frame.distance)
           pickup_zone_coef   == get_zone_coefficient(self_config, args.pickup_zone_name)
           delivery_zone_coef == get_zone_coefficient(self_config, args.delivery_zone_name)
           goods_coef         == get_goods_coefficient(self_config, args.goods_type)
           vehicle_coef       == get_vehicle_coefficient(self_config, args.vehicle_type)
           size_coef          == SizeCoefficient(self_config, args)
           exc == FirstExc(<<km_coef, pickup_zone_coef, delivery_zone_coef,
                             goods_coef, vehicle_coef, size_coef>>)
       IN  IF exc # "ok" THEN Fail(exc)
           ELSE LET max_zone_coef == PyMax(pickup_zone_coef.v, delivery_zone_coef.v)
                IN  /\ frame' = [frame EXCEPT !.km_coef = km_coef.v,
                                              !.max_zone_coef = max_zone_coef,
                                              !.goods_coef = goods_coef.v,
                                              !.vehicle_coef = vehicle_coef.v,
                                              !.size_coef = size_coef.v]
                    /\ results' = results @@ ("coefficients" :>
                                     [km |-> km_coef.v, zone |-> max_zone_coef,
                                      goods |-> goods_coef.v, vehicle |-> vehicle_coef.v,
                                      size |-> size_coef.v,
                                      proposed |-> frame.proposed_coef])
                    /\ pc' = "freight"
                    /\ UNCHANGED <<probe, config, form, args>>

\* the base freight with the vehicle coefficient as one more factor
BaseFreightWithVehicle(f, base_rate) ==
    PyMul(PyMul(PyMul(PyMul(PyMul(PyMul(PyMul(f.chargeable_weight, f.km_coef),
          f.max_zone_coef), f.goods_coef), f.size_coef), f.vehicle_coef),
          f.proposed_coef), base_rate)

\* chargeable_weight * km_coef * max_zone_coef * goods_coef * size_coef
\*   * proposed_coef * base_rate
BaseFreight(f, base_rate) ==
    PyMul(PyMul(PyMul(PyMul(PyMul(PyMul(f.chargeable_weight, f.km_coef),
          f.max_zone_coef), f.goods_coef), f.size_coef), f.proposed_coef), base_rate)

\* "# Tính base_rate" and "# Tính cước tạm tính"
Freight ==
    /\ pc = "freight"
    /\ LET base_rate    == get_base_rate(frame.chargeable_weight)
           base_freight == BaseFreight(frame, base_rate)
       IN  /\ frame' = [frame EXCEPT !.base_freight = base_freight]
           /\ results' = results @@ ("base_freight" :> base_freight)
           /\ pc' = "fee"
           /\ UNCHANGED <<probe, config, form, args>>

TpVinh == <<"t", "p", " ", "v", "i", "n", "h">>

\* the delivery fee without .strip(): surrounding whitespace counts
DeliveryFeeUntrimmed(cfg, delivery_point) ==
    IF delivery_point.k = "none" \/ (delivery_point.k = "text" /\ delivery_point.s = <<>>)
    THEN Ok(Num(0))
    ELSE IF delivery_point.k # "text" THEN Raise("AttributeError")
    ELSE IF Lower(delivery_point.s) # TpVinh THEN Ok(Num(0))
    ELSE LET b == Constant(cfg, "delivery_vinh_base")
             r == Constant(cfg, "delivery_vinh_rate")
         IN  IF b.exc # "ok" THEN b
             ELSE IF r.exc # "ok" THEN r
             ELSE Ok(PyMul(b.v, r.v))

\* the delivery fee, or the exception computing it raises
DeliveryFee(cfg, delivery_point) ==
    IF delivery_point.k = "none" \/ (delivery_point.k = "text" /\ delivery_point.s = <<>>)
    THEN Ok(Num(0))
    ELSE IF delivery_point.k # "text" THEN Raise("AttributeError")
    ELSE IF Strip(Lower(delivery_point.s)) # TpVinh THEN Ok(Num(0))
    ELSE LET b == Constant(cfg, "delivery_vinh_base")
             r == Constant(cfg, "delivery_vinh_rate")
         IN  IF b.exc # "ok" THEN b
             ELSE IF r.exc # "ok" THEN r
             ELSE Ok(PyMul(b.v, r.v))

\* "# Tính phí giao tận nơi"
Fee ==
    /\ pc = "fee"
    /\ LET delivery_fee == DeliveryFee(self_config, args.delivery_point)
       IN  IF delivery_fee.exc # "ok" THEN Fail(delivery_fee.exc)
           ELSE /\ frame' = [frame EXCEPT !.delivery_fee = delivery_fee.v]
                /\ results' = results @@ ("delivery_fee" :> delivery_fee.v)
                /\ pc' = "total"
                /\ UNCHANGED <<probe, config, form, args>>

\* the full-vehicle cost with the size coefficient in the vehicle
\* coefficient's place
FullVehicleCostBySize(f, full_vehicle_rate) ==
    PyMul(PyMul(PyMul(PyMul(PyMul(PyMul(f.chargeable_weight, f.km_coef),
          f.max_zone_coef), f.goods_coef), f.size_coef), f.proposed_coef),
          full_vehicle_rate)

\* chargeable_weight * km_coef * max_zone_coef * goods_coef * vehicle_coef
\*   * proposed_coef * full_vehicle_rate
FullVehicleCost(f, full_vehicle_rate) ==
    PyMul(PyMul(PyMul(PyMul(PyMul(PyMul(f.chargeable_weight, f.km_coef),
          f.max_zone_coef), f.goods_coef), f.vehicle_coef), f.proposed_coef),
          full_vehicle_rate)

\* "# Tổng tiền", "# Giá xe ghép", "# Giá nguyên xe", "# Giá báo khách"
Totals ==
    /\ pc = "total"
    /\ LET total_cost          == PyAdd(frame.base_freight, frame.delivery_fee)
           shared_vehicle_cost == PyMul(frame.base_freight, Rat(9, 10))
           full_vehicle_rate   == Constant(self_config, "full_vehicle_rate")
           sofar == results @@ ("total_cost" :> total_cost
                                @@ "shared_vehicle_cost" :> shared_vehicle_cost)
       IN  IF full_vehicle_rate.exc # "ok"
           THEN /\ results' = Handled(sofar, full_vehicle_rate.exc)
                /\ pc' = AfterRaise(full_vehicle_rate.exc)
                /\ UNCHANGED <<probe, config, form, args, frame>>
           ELSE /\ frame' = [frame EXCEPT !.total_cost = total_cost]
                /\ results' = sofar @@ ("full_vehicle_cost" :>
                                            FullVehicleCost(frame, full_vehicle_rate.v)
                                        @@ "customer_price" :> total_cost)
                /\ pc' = "round"
                /\ UNCHANGED <<probe, config, form, args>>

MoneyKeys == <<"base_freight", "delivery_fee", "total_cost", "shared_vehicle_cost",
               "full_vehicle_cost", "customer_price">>

\* for key in [...]: results[key] = round(results[key]); stops at the first
\* key whose rounding raises, the earlier keys already rounded
RECURSIVE RoundLoop(_, _)
RoundLoop(res, keys) ==
    IF keys = <<>> THEN [exc |-> "ok", res |-> res]
    ELSE LET r == PyRound(res[Head(keys)])
         IN  IF r.exc # "ok" THEN [exc |-> r.exc, res |-> res]
             ELSE RoundLoop(With(res, Head(keys), r.v), Tail(keys))

\* "# Làm tròn các giá trị"
RoundAll ==
    /\ pc = "round"
    /\ LET out == RoundLoop(results, MoneyKeys)
       IN  /\ results' = IF out.exc # "ok" THEN Handled(out.res, out.exc) ELSE out.res
           /\ pc' = IF out.exc # "ok" THEN AfterRaise(out.exc) ELSE "done"
           /\ UNCHANGED <<probe, config, form, args, frame>>

\* return results: the caller has the result, the calculator is idle again
Return ==
    /\ pc = "done"
    /\ pc' = "idle"
    /\ form' = NoForm
    /\ args' = DefaultArgs
    /\ frame' = NoFrame
    /\ results' = NewResults
    /\ UNCHANGED <<probe, config>>

(***************************************************************************)
(* Inputs.                                                                 *)
(***************************************************************************)
MaxQuantity == 2

DistanceValues ==
    {None, Str, List, Num(-5), Num(0), Num(50), Num(156), Num(3000), NaN, Inf}

WeightValues ==
    {None, Str, Num(-3), Num(0), Rat(1, 2), Num(10), Num(999), Num(1000),
     Num(3000), Num(10000), NaN, Inf}

QuantityValues ==
    {None, Str, Num(-1), Rat(27, 10), NaN, Inf} \cup {Num(q) : q \in 0..MaxQuantity}

DimValues == {None, Str, Num(0), Num(-10), Num(100), Num(300), NaN, Inf}

ZoneNames ==
    {Name("Vùng 1"), Name("Vùng 5"), Name("Vùng còn lại"), Name("Vùng huyện ddảo"),
     Name("vùng 1"), Name("Vùng 9"), NameNone, NameList}

DeliveryZoneNames == {Name("Vùng 5"), Name("Vùng còn lại"), Name("Vùng 9"), NameNone}

GoodsTypes ==
    {Name("Lúa thóc"), Name("Hàng dễ vỡ"), Name("Hàng lạ"), NameNone, NameList}

VehicleTypes == {Name("Tải"), Name("Fooc"), Name("Xe máy"), NameNone, NameList}

ProposedValues == {None, Str, Num(-1), Num(0), Rat(15, 10), NaN, Inf}

DeliveryPoints ==
    {TNone, TInt,
     Text(<<"t", "p", " ", "v", "i", "n", "h">>),
     Text(<<" ", "T", "P", " ", "V", "i", "n", "h", " ">>),
     Text(<<"T", "P", " ", "V", "i", "n", "h", ",", " ", "N", "g", "h", "ệ", " ", "A", "n">>),
     Text(<<"H", "à", " ", "N", "ộ", "i">>),
     Text(<<>>)}

LocTexts ==
    {TNone,
     Text(<<"H", "à", " ", "N", "ộ", "i">>),
     Text(<<"H", "À", " ", "N", "Ộ", "I">>),
     Text(<<" ", " ", "h", "à", " ", "n", "ộ", "i", " ">>),
     Text(<<"DD", "à", " ", "N", "ẵ", "n", "g", " ", "-", " ", "H", "à", " ", "N", "ộ", "i">>),
     Text(<<"k", "h", "o", " ", "C", "ầ", "n", " ", "T", "h", "ơ">>),
     Text(<<"H", "u", "ế">>),
     Text(<<"H", "à", " ", "N", "ộ">>),
     Text(<<"V", "ù", "n", "g", " ", "c", "ò", "n", " ", "l", "ạ", "i">>),
     Text(<<"C", "ô", "n", " ", "DD", "ả", "o">>),
     Text(<<"B", "ì", "n", "h", " ", "D", "ư", "ơ", "n", "g">>),
     Text(<<>>)}

DeliveryLocTexts ==
    {TNone, Text(<<"H", "u", "ế">>), Text(<<"C", "ầ", "n", " ", "T", "h", "ơ">>)}

\* a well-formed request: 156 km, 10 kg
BaseArgs == [DefaultArgs EXCEPT !.distance_km = Num(156), !.actual_weight_kg = Num(10)]

DirectCalls ==
    {[DefaultArgs EXCEPT !.distance_km = d, !.actual_weight_kg = w, !.quantity = q] :
        d \in DistanceValues, w \in WeightValues, q \in QuantityValues}
    \cup
    {[BaseArgs EXCEPT !.vol_length_cm = l, !.vol_width_cm = w, !.vol_height_cm = h] :
        l \in DimValues, w \in DimValues, h \in DimValues}
    \cup
    {[BaseArgs EXCEPT !.pickup_zone_name = p, !.delivery_zone_name = d,
                      !.goods_type = g, !.vehicle_type = v] :
        p \in ZoneNames, d \in DeliveryZoneNames, g \in GoodsTypes, v \in VehicleTypes}
    \cup
    {[BaseArgs EXCEPT !.delivery_point = p, !.proposed_coefficient = c,
                      !.actual_weight_kg = w] :
        p \in DeliveryPoints, c \in ProposedValues, w \in {Num(10), Num(3500), Inf}}

(***************************************************************************)
(* Entry points.                                                           *)
(***************************************************************************)
\* a direct call of calculate_shipping_rate: results = {"error": None}
Call ==
    /\ pc = "idle"
    /\ \E a \in DirectCalls : args' = a
    /\ form' = NoForm
    /\ frame' = NoFrame
    /\ results' = NewResults
    /\ pc' = "validate"
    /\ UNCHANGED <<probe, config>>

\* process_query / calculate_from_form: a caller holding two location texts
\* and already coerced numbers
RequestQuote ==
    /\ pc = "idle"
    /\ \E p \in LocTexts, d \in DeliveryLocTexts, w \in {Num(10), Inf} :
          /\ form' = [via |-> "loc", pickup_loc |-> p, delivery_loc |-> d]
          /\ args' = [BaseArgs EXCEPT !.actual_weight_kg = w]
    /\ pc' = "resolve"
    /\ UNCHANGED <<probe, config, frame, results>>

\* pickup_zone = get_zone_name_from_loc(pickup_loc), the same for delivery,
\* then the call of calculate_shipping_rate with them
ResolveZones ==
    /\ pc = "resolve"
    /\ args' = [args EXCEPT
                  !.pickup_zone_name = Name(get_zone_name_from_loc(self_config, form.pickup_loc).v),
                  !.delivery_zone_name = Name(get_zone_name_from_loc(self_config, form.delivery_loc).v)]
    /\ frame' = NoFrame
    /\ results' = NewResults
    /\ pc' = "validate"
    /\ UNCHANGED <<probe, config, form>>

(***************************************************************************)
(* The calculator with its embedded configuration.                         *)
(***************************************************************************)
Init ==
    /\ config = "DEFAULT_CONFIG"
    /\ pc = "idle"
    /\ form = NoForm
    /\ args = DefaultArgs
    /\ frame = NoFrame
    /\ results = NewResults
    /\ probe = <<>>

Next ==
    \/ Call
    \/ RequestQuote
    \/ ResolveZones
    \/ Validate
    \/ Weigh
    \/ Coefs
    \/ Freight
    \/ Fee
    \/ Totals
    \/ RoundAll
    \/ Return

Spec == Init /\ [][Next]_vars

(***************************************************************************)
(* The same calculator over any of the configurations.                     *)
(***************************************************************************)
InitConfig ==
    /\ config \in {"DEFAULT_CONFIG"} \cup DefectiveConfigs \cup BandConfigs
    /\ pc = "idle"
    /\ form = NoForm
    /\ args = DefaultArgs
    /\ frame = NoFrame
    /\ results = NewResults
    /\ probe = <<>>

SpecConfig == InitConfig /\ [][Next]_vars

(***************************************************************************)
(* The band lookups called on their own, on non-empty band tables.         *)
(***************************************************************************)
ProbeValues ==
    {Num(-5), Num(0), Rat(4999, 100), Num(50), Num(100), Num(156), Num(200),
     Num(1100), Num(2500), Num(3000), NaN, Inf, NegInf}

LastTwo(s) == IF Len(s) > 2 THEN SubSeq(s, Len(s) - 1, Len(s)) ELSE s

LookupKm ==
    /\ \E v \in ProbeValues :
          probe' = LastTwo(Append(probe, [fn |-> "km_coefficients", value |-> v,
                                          out |-> get_km_coefficient(self_config, v)]))
    /\ UNCHANGED <<config, pc, form, args, frame, results>>

LookupSize ==
    /\ \E v \in ProbeValues \cup {None} :
          probe' = LastTwo(Append(probe, [fn |-> "size_coefficients", value |-> v,
                                          out |-> get_size_coefficient(self_config, v)]))
    /\ UNCHANGED <<config, pc, form, args, frame, results>>

InitLookup ==
    /\ config \in {"DEFAULT_CONFIG"} \cup BandConfigs
    /\ pc = "idle"
    /\ form = NoForm
    /\ args = DefaultArgs
    /\ frame = NoFrame
    /\ results = NewResults
    /\ probe = <<>>

NextLookup == LookupKm \/ LookupSize

SpecLookup == InitLookup /\ [][NextLookup]_vars

(***************************************************************************)
(* parse_user_query.  Each regular expression is read as the search that   *)
(* re.search performs: the leftmost start at which the pattern matches, a  *)
(* greedy repeat as long and a lazy group as short as the rest of the      *)
(* pattern allows.  A greedy run that is followed by the lazy group gives  *)
(* characters back one at a time, so the group starts at the last position *)
(* from which it can still match.                                          *)
(***************************************************************************)
DigitChars == <<"0", "1", "2", "3", "4", "5", "6", "7", "8", "9">>
\* a run of LongRun digits "1", written as one character
LongDigits == "1{n}"
LongRun == 4301
\* the limit of int() on the digits of a string (sys.get_int_max_str_digits())
MaxStrDigits == 4300

Punctuation == {",", ".", ":", "=", "/", "-", "*", "×", "?", "!"}
\* \d, \s, [\w\s] and [\w\s\d\.,/-]
InClass(c, class) ==
    CASE class = "digit" -> c = LongDigits \/ \E k \in DOMAIN DigitChars : DigitChars[k] = c
      [] class = "space" -> c \in Whitespace
      [] class = "name"  -> c \notin Punctuation
      [] class = "place" -> c \notin Punctuation \/ c \in {".", ",", "/", "-"}

\* the length of the longest run of the class from position i on
Run(s, i, class) ==
    Cardinality({k \in i..Len(s) : \A m \in i..k : InClass(s[m], class)})

\* the literal w at position i, letter case ignored
At(s, i, w) ==
    /\ i + Len(w) - 1 <= Len(s)
    /\ \A k \in DOMAIN w : LowerChar(s[i + k - 1]) = w[k]

\* (?:w1|w2|...) at position i: the length of the first alternative that is
\* there, 0 when none is
WordAt(s, i, words) ==
    LET hits == {k \in DOMAIN words : At(s, i, words[k])}
    IN  IF hits = {} THEN 0
        ELSE Len(words[CHOOSE k \in hits : \A j \in hits : k <= j])

FromWords ==
    << <<"t", "ừ">>, <<"c", "h", "ở", " ", "t", "ừ">>,
       <<"v", "ậ", "n", " ", "c", "h", "u", "y", "ể", "n", " ", "t", "ừ">>,
       <<"dd", "i", " ", "t", "ừ">> >>
ToWords == << <<"dd", "ế", "n">>, <<"t", "ớ", "i">>, <<"v", "ề">> >>
DeliveryWords == << <<"t", "ậ", "n", " ", "n", "ơ", "i">>, <<"t", "ớ", "i">> >>
WeightUnits ==
    << <<"t", "ấ", "n">>, <<"k", "g">>, <<"k", "i", "l", "o", "g", "a", "m">>,
       <<"k", "i", "l", "o", "g", "r", "a", "m">>, <<"c", "â", "n">> >>
DistanceUnits ==
    << <<"k", "m">>, <<"k", "i", "l", "o", "m", "e", "t">>,
       <<"k", "i", "l", "o", "m", "e", "t", "e", "r">> >>

\* what may follow a lazy group at position t: (?:,|\.|$|\n) for "stop",
\* \s*(?:dden|toi|ve|$) for "to"
Follows(s, t, stop) ==
    IF stop = "to"
    THEN \E u \in t..(Len(s) + 1) :
            /\ \A m \in t..(u - 1) : InClass(s[m], "space")
            /\ u = Len(s) + 1 \/ WordAt(s, u, ToWords) > 0
    ELSE t = Len(s) + 1 \/ s[t] \in {",", ".", "\n"}

\* ([class]+?) from g: the last position of the shortest group, 0 if none
GroupEnd(s, g, class, stop) ==
    LET ends == {e \in g..Len(s) : /\ \A m \in g..e : InClass(s[m], class)
                                   /\ Follows(s, e + 1, stop)}
    IN  IF ends = {} THEN 0 ELSE CHOOSE e \in ends : \A f \in ends : e <= f

\* the group, stripped, from the last of the starts it can match from; <<>>
\* when it matches from none
Group(s, starts, class, stop) ==
    LET ok == {g \in starts : GroupEnd(s, g, class, stop) > 0}
        g  == CHOOSE x \in ok : \A y \in ok : y <= x
    IN  IF ok = {} THEN <<>> ELSE <<Strip(SubSeq(s, g, GroupEnd(s, g, class, stop)))>>

\* re.search: the match at the leftmost start that has one
Leftmost(MatchAt) ==
    LET hits == {i \in DOMAIN MatchAt : MatchAt[i] # <<>>}
    IN  IF hits = {} THEN <<>> ELSE MatchAt[CHOOSE i \in hits : \A j \in hits : i <= j]

\* \s*[:=]?\s* from p: where the pattern goes on, and the starts of a group
\* that follows it
AfterSep(s, p) ==
    LET k == p + Run(s, p, "space")
    IN  IF k <= Len(s) /\ s[k] \in {":", "="} THEN k + 1 + Run(s, k + 1, "space") ELSE k

SepStarts(s, p) ==
    LET k == p + Run(s, p, "space")
    IN  {p + w : w \in 0..Run(s, p, "space")}
        \cup (IF k <= Len(s) /\ s[k] \in {":", "="}
              THEN {k + 1 + w : w \in 0..Run(s, k + 1, "space")} ELSE {})

\* (\d+(?:[.,]\d+)?) at i: the position after it, 0 when there is no digit
NumberEnd(s, i) ==
    LET a == i + Run(s, i, "digit")
    IN  IF a = i THEN 0
        ELSE IF a + 1 <= Len(s) /\ s[a] \in {".", ","} /\ InClass(s[a + 1], "digit")
             THEN a + 1 + Run(s, a + 1, "digit")
        ELSE a

\* the natural a string of digits writes
RECURSIVE DigitsValue(_)
DigitsValue(t) ==
    IF t = <<>> THEN <<>>
    ELSE BAdd(BMulSmall(DigitsValue(SubSeq(t, 1, Len(t) - 1)), 10),
              BigOf((CHOOSE k \in DOMAIN DigitChars : DigitChars[k] = t[Len(t)]) - 1))

IsDigitChar(c) == InClass(c, "digit")

\* float(t.replace(',', '.')) for a matched number: the nearest double; a
\* whole part of more than 309 digits is inf
ParseFloat(t) ==
    LET seps == {k \in DOMAIN t : t[k] \in {".", ","}}
        frac == IF seps = {} THEN 0 ELSE Len(t) - (CHOOSE k \in seps : TRUE)
    IN  IF t[1] = LongDigits THEN Inf
        ELSE ToDouble(Fin(1, DigitsValue(SelectSeq(t, IsDigitChar)), [j \in 1..frac |-> 10]))

\* int(t) for a string of digits: ValueError beyond the digit limit
ParseInt(t) ==
    IF Len(t) + (LongRun - 1) * Cardinality({k \in DOMAIN t : t[k] = LongDigits}) > MaxStrDigits
    THEN Raise("ValueError")
    ELSE Ok(Fin(1, DigitsValue(t), <<>>))

\* (?:tu|cho tu|van chuyen tu|ddi tu)\s+([\w\s\d\.,/-]+?)\s*(?:dden|toi|ve|$)
from_match(s) ==
    LET MatchAt == [i \in 1..Len(s) |->
            LET n == WordAt(s, i, FromWords)
            IN  IF n = 0 THEN <<>>
                ELSE Group(s, {i + n + w : w \in 1..Run(s, i + n, "space")}, "place", "to")]
    IN  Leftmost(MatchAt)

\* (?:dden|toi|ve)\s+([\w\s\d\.,/-]+?)(?:,|\.|$|\n)
to_match(s) ==
    LET MatchAt == [i \in 1..Len(s) |->
            LET n == WordAt(s, i, ToWords)
            IN  IF n = 0 THEN <<>>
                ELSE Group(s, {i + n + w : w \in 1..Run(s, i + n, "space")}, "place", "stop")]
    IN  Leftmost(MatchAt)

\* giao\s*(?:tan noi|toi)?\s*([\w\s\d\.,/-]+?)(?:,|\.|$|\n)
delivery_match(s) ==
    LET MatchAt == [i \in 1..Len(s) |->
            LET k == i + 4 + Run(s, i + 4, "space")
                n == WordAt(s, k, DeliveryWords)
            IN  IF ~At(s, i, <<"g", "i", "a", "o">>) THEN <<>>
                ELSE Group(s, {i + 4 + w : w \in 0..Run(s, i + 4, "space")}
                              \cup (IF n = 0 THEN {}
                                    ELSE {k + n + w : w \in 0..Run(s, k + n, "space")}),
                           "place", "stop")]
    IN  Leftmost(MatchAt)

\* (\d+(?:[.,]\d+)?)\s*(unit1|unit2|...): the number and whether the unit is
\* the first of the alternatives
measure_match(s, units) ==
    LET MatchAt == [i \in 1..Len(s) |->
            LET e == NumberEnd(s, i)
                u == e + Run(s, e, "space")
            IN  IF e = 0 \/ WordAt(s, u, units) = 0 THEN <<>>
                ELSE <<SubSeq(s, i, e - 1), At(s, u, units[1])>>]
    IN  Leftmost(MatchAt)

\* so kien\s*[:=]?\s*(\d+)
quantity_match(s) ==
    LET MatchAt == [i \in 1..Len(s) |->
            LET g == AfterSep(s, i + 7)
            IN  IF ~At(s, i, <<"s", "ố", " ", "k", "i", "ệ", "n">>) \/ Run(s, g, "digit") = 0
                THEN <<>>
                ELSE <<SubSeq(s, g, g + Run(s, g, "digit") - 1)>>]
    IN  Leftmost(MatchAt)

\* \s*[x*×]\s* from e: the position after it, 0 when there is no cross
Cross(s, e) ==
    LET x == e + Run(s, e, "space")
    IN  IF e = 0 \/ x > Len(s) \/ LowerChar(s[x]) \notin {"x", "*", "×"} THEN 0
        ELSE x + 1 + Run(s, x + 1, "space")

\* kich thuoc\s*[:=]?\s*(N)\s*[x*×]\s*(N)\s*[x*×]\s*(N)\s*(cm|centimet)?
dim_match(s) ==
    LET MatchAt == [i \in 1..Len(s) |->
            LET g1 == AfterSep(s, i + 10)
                g2 == Cross(s, NumberEnd(s, g1))
                g3 == Cross(s, NumberEnd(s, g2))
            IN  IF \/ ~At(s, i, <<"k", "í", "c", "h", " ", "t", "h", "ư", "ớ", "c">>)
                   \/ g2 = 0 \/ g3 = 0 \/ NumberEnd(s, g3) = 0
                THEN <<>>
                ELSE <<SubSeq(s, g1, NumberEnd(s, g1) - 1), SubSeq(s, g2, NumberEnd(s, g2) - 1),
                       SubSeq(s, g3, NumberEnd(s, g3) - 1)>>]
    IN  Leftmost(MatchAt)

\* label\s*[:=]?\s*([\w\s]+?)(?:,|\.|$|\n), for "loai hang" and "loai xe"
label_match(s, label) ==
    LET MatchAt == [i \in 1..Len(s) |->
            IF ~At(s, i, label) THEN <<>>
            ELSE Group(s, SepStarts(s, i + Len(label)), "name", "stop")]
    IN  Leftmost(MatchAt)

\* he so dde xuat\s*[:=]?\s*(\d+(?:[.,]\d+)?)
coef_match(s) ==
    LET MatchAt == [i \in 1..Len(s) |->
            LET g == AfterSep(s, i + 13)
            IN  IF \/ ~At(s, i, <<"h", "ệ", " ", "s", "ố", " ", "dd", "ề", " ",
                                   "x", "u", "ấ", "t">>)
                   \/ NumberEnd(s, g) = 0
                THEN <<>>
                ELSE <<SubSeq(s, g, NumberEnd(s, g) - 1)>>]
    IN  Leftmost(MatchAt)

\* round(x, 2): the double nearest to x rounded half-even to two decimals
Round2(x) ==
    IF x.k # "fin" THEN x
    ELSE ToDouble(Fin(x.sg, RoundFin(Fin(x.sg, BMulSmall(x.n, 100), x.d)).n, <<100>>))

\* the increment of a pattern: inc when it matched, nothing otherwise
Gain(match, inc) == IF match = <<>> THEN <<>> ELSE <<inc>>

\* confidence after the increments were added (+=) one after the other to 0.0
RECURSIVE Accumulate(_)
Accumulate(incs) ==
    IF incs = <<>> THEN Num(0)
    ELSE PyAdd(Accumulate(SubSeq(incs, 1, Len(incs) - 1)), incs[Len(incs)])

\* group(1).strip() of a match, None without one
Found(match) == IF match = <<>> THEN TNone ELSE Text(match[1])

\* the data dict from the ten matches and int() of the quantity
Extracted(from_, to, deliver, weight, qty, dim, dist, goods, vehicle, coef, quantity,
          confidence) ==
    IF quantity.exc # "ok" THEN Raise(quantity.exc)
    ELSE Ok([from_location  |-> Found(from_),
             to_location    |-> Found(to),
             delivery_point |-> Found(deliver),
             weight   |-> IF weight = <<>> THEN None
                          ELSE IF weight[2] THEN PyMul(ParseFloat(weight[1]), Num(1000))
                          ELSE ParseFloat(weight[1]),
             dimensions |-> IF dim = <<>>
                            THEN [length |-> None, width |-> None, height |-> None]
                            ELSE [length |-> ParseFloat(dim[1]), width |-> ParseFloat(dim[2]),
                                  height |-> ParseFloat(dim[3])],
             quantity |-> quantity.v,
             distance |-> IF dist = <<>> THEN None ELSE ParseFloat(dist[1]),
             goods_type   |-> Found(goods),
             vehicle_type |-> Found(vehicle),
             proposed_coefficient |-> IF coef = <<>> THEN Rat(10, 10)
                                      ELSE ParseFloat(coef[1]),
             confidence |-> Round2(confidence)])

\* int() of the quantity and the confidence added up, from the ten matches
Matched(from_, to, deliver, weight, qty, dim, dist, goods, vehicle, coef) ==
    Extracted(from_, to, deliver, weight, qty, dim, dist, goods, vehicle, coef,
              IF qty = <<>> THEN Ok(Num(1)) ELSE ParseInt(qty[1]),
              Accumulate(Gain(from_, Rat(2, 10)) \o Gain(to, Rat(2, 10))
                         \o Gain(deliver, Rat(1, 10)) \o Gain(weight, Rat(2, 10))
                         \o Gain(qty, Rat(1, 10)) \o Gain(dim, Rat(15, 100))
                         \o Gain(dist, Rat(2, 10)) \o Gain(goods, Rat(1, 10))
                         \o Gain(vehicle, Rat(1, 10)) \o Gain(coef, Rat(1, 10))))

parse_user_query(query) ==
    Matched(from_match(query), to_match(query), delivery_match(query),
            measure_match(Lower(query), WeightUnits), quantity_match(query),
            dim_match(query), measure_match(Lower(query), DistanceUnits),
            label_match(query, <<"l", "o", "ạ", "i", " ", "h", "à", "n", "g">>),
            label_match(query, <<"l", "o", "ạ", "i", " ", "x", "e">>),
            coef_match(query))

\* the texts parsed
Queries ==
    {<<>>,
     <<"x", "i", "n", " ", "c", "h", "à", "o">>,
     <<"C", "h", "ở", " ", "t", "ừ", " ", "H", "à", " ", "N", "ộ", "i", " ", "dd", "ế", "n", " ", "H", "u", "ế", ",", " ", "g", "i", "a", "o", " ", "t", "ớ", "i", " ", "T", "P", " ", "V", "i", "n", "h", ",", " ", "2", " ", "t", "ấ", "n", ",", " ", "s", "ố", " ", "k", "i", "ệ", "n", ":", " ", "3", ",", " ", "k", "í", "c", "h", " ", "t", "h", "ư", "ớ", "c", " ", "1", "0", "x", "2", "0", "x", "3", "0", " ", "c", "m", ",", " ", "1", "5", "6", " ", "k", "m", ",", " ", "l", "o", "ạ", "i", " ", "h", "à", "n", "g", ":", " ", "L", "ú", "a", " ", "t", "h", "ó", "c", ",", " ", "l", "o", "ạ", "i", " ", "x", "e", ":", " ", "T", "ả", "i", ",", " ", "h", "ệ", " ", "s", "ố", " ", "dd", "ề", " ", "x", "u", "ấ", "t", " ", "1", ".", "5">>,
     <<"t", "ừ", " ", "H", "à", " ", "N", "ộ", "i", " ", "dd", "ế", "n", " ", "H", "u", "ế", " ", "5", "0", "0", " ", "k", "g", " ", "1", "5", "6", " ", "k", "m">>,
     <<"g", "i", "a", "o", " ", "t", "ớ", "i">>,
     <<"s", "ố", " ", "k", "i", "ệ", "n", ":", " ", "1{n}">>,
     <<"1", "0", " ", "k", "g">>,
     <<"k", "í", "c", "h", " ", "t", "h", "ư", "ớ", "c", " ", "1", "0", "x", "2", "0">>,
     <<"T", "ừ", " ", "V", "i", "n", "h", " ", "v", "ề", " ", "H", "u", "ế", ",", " ", "1", ",", "5", " ", "t", "ấ", "n", ",", " ", "3", "2", "0", "k", "m", ",", " ", "s", "ố", " ", "k", "i", "ệ", "n", " ", "=", " ", "2">>,
     <<"l", "o", "ạ", "i", " ", "h", "à", "n", "g", ":", " ", " ", " ", ",", " ", "5", " ", "k", "g">>,
     <<"dd", "i", " ", "t", "ừ", " ", " ", "C", "ầ", "n", " ", "T", "h", "ơ", " ", "t", "ớ", "i", " ", "H", "à", " ", "N", "ộ", "i", ".", "\n", " ", "h", "ệ", " ", "s", "ố", " ", "dd", "ề", " ", "x", "u", "ấ", "t", ":", " ", "1", ",", "2">>,
     <<"1", "5", "6", " ", "K", "M", ",", " ", "1", "0", " ", "K", "G", ",", " ", "k", "í", "c", "h", " ", "t", "h", "ư", "ớ", "c", ":", " ", "1", "0", "0", " ", "X", " ", "5", "0", " ", "*", " ", "4", "0", "c", "m", ",", " ", "l", "o", "ạ", "i", " ", "x", "e", " ", "F", "o", "o", "c">>}

\* what parse_user_query returns for each of the texts
Parsed == [q \in Queries |-> parse_user_query(q)]

\* one more query parsed; the caller keeps the last two results
ParseQuery ==
    /\ pc = "idle"
    /\ \E q \in Queries :
          probe' = LastTwo(Append(probe, [fn |-> "parse_user_query", value |-> q,
                                          out |-> Parsed[q]]))
    /\ UNCHANGED <<config, pc, form, args, frame, results>>

SpecParse == Init /\ [][ParseQuery]_vars

(***************************************************************************)
(* process_query: a quote from free text.                                  *)
(***************************************************************************)
\* ''.join(s)
RECURSIVE Join(_)
Join(s) ==
    IF s = <<>> THEN ""
    ELSE IF Len(s) = 1 THEN s[1]
    ELSE Join(SubSeq(s, 1, Len(s) \div 2)) \o Join(SubSeq(s, Len(s) \div 2 + 1, Len(s)))

\* a label as the coefficient tables key it
NameOf(t) == IF t.k = "text" THEN Name(Join(t.s)) ELSE NameNone

\* d.get(key, default)
Get(d, key, default) == IF key \in DOMAIN d THEN d[key] ELSE default

DefaultGoodsTypes == {Name("Hàng ddóng hộp tiêu dùng"), Name("Hàng dễ vỡ")}
DefaultVehicleTypes == {Name("Tải"), Name("Fooc")}

\* process_query returns text to the caller
Answer(query, default_goods_type, default_vehicle_type, reply) ==
    /\ probe' = <<[fn |-> "process_query", query |-> query,
                   default_goods_type |-> default_goods_type,
                   default_vehicle_type |-> default_vehicle_type, reply |-> reply]>>
    /\ pc' = "idle"
    /\ form' = NoForm
    /\ args' = DefaultArgs
    /\ frame' = NoFrame
    /\ results' = NewResults
    /\ UNCHANGED config

\* process_query with the fields read from parsed_data: the request for
\* distance and weight, or the arguments of the rate call
Request(query, default_goods_type, default_vehicle_type, parsed_data,
        distance, actual_weight, dimensions, goods_type, vehicle_type) ==
    IF distance = None \/ actual_weight = None
    THEN Answer(query, default_goods_type, default_vehicle_type,
                [kind |-> "Vui lòng cung cấp", cause |-> "ok"])
    ELSE /\ form' = [via |-> "query", query |-> query,
                     default_goods_type |-> default_goods_type,
                     default_vehicle_type |-> default_vehicle_type,
                     parsed_data |-> parsed_data,
                     pickup_loc |-> Get(parsed_data, "from_location", TNone),
                     delivery_loc |-> Get(parsed_data, "to_location", TNone),
                     goods_type |-> goods_type, vehicle_type |-> vehicle_type]
         /\ args' = [distance_km |-> distance, actual_weight_kg |-> actual_weight,
                     quantity |-> Get(parsed_data, "quantity", Num(1)),
                     vol_length_cm |-> Get(dimensions, "length", None),
                     vol_width_cm |-> Get(dimensions, "width", None),
                     vol_height_cm |-> Get(dimensions, "height", None),
                     pickup_zone_name |-> NameNone,
                     delivery_zone_name |-> NameNone,
                     delivery_point |-> Get(parsed_data, "delivery_point", Text(<<>>)),
                     goods_type |-> IF goods_type.k \in {"text", "none"}
                                    THEN NameOf(goods_type) ELSE goods_type,
                     vehicle_type |-> IF vehicle_type.k \in {"text", "none"}
                                      THEN NameOf(vehicle_type) ELSE vehicle_type,
                     proposed_coefficient |->
                         Get(parsed_data, "proposed_coefficient", Rat(10, 10))]
         /\ pc' = "resolve"
         /\ probe' = <<>>
         /\ UNCHANGED <<config, frame, results>>

\* process_query once parse_user_query returned or raised
Parse(query, default_goods_type, default_vehicle_type, parsed) ==
    IF parsed.exc # "ok"
    THEN Answer(query, default_goods_type, default_vehicle_type,
                [kind |-> "Lỗi xử lý yêu cầu", cause |-> parsed.exc])
    ELSE Request(query, default_goods_type, default_vehicle_type, parsed.v,
                 Get(parsed.v, "distance", None),
                 Get(parsed.v, "weight", None),
                 Get(parsed.v, "dimensions", <<>>),
                 Get(parsed.v, "goods_type", default_goods_type),
                 Get(parsed.v, "vehicle_type", default_vehicle_type))

\* process_query up to the call of get_zone_name_from_loc
ProcessQuery ==
    /\ pc = "idle"
    /\ \E query \in Queries, default_goods_type \in DefaultGoodsTypes,
          default_vehicle_type \in DefaultVehicleTypes :
          Parse(query, default_goods_type, default_vehicle_type, Parsed[query])

\* process_query after calculate_shipping_rate returned: "Lỗi: ..." or the
\* quote, which reports the labels the rate was asked with
Respond ==
    /\ pc = "done"
    /\ form.via = "query"
    /\ Answer(form.query, form.default_goods_type, form.default_vehicle_type,
              IF results["error"] # NoError
              THEN [kind |-> "Lỗi", cause |-> results["error"].cause]
              ELSE [kind |-> "Báo giá", cause |-> "ok",
                    goods_type |-> args.goods_type, vehicle_type |-> args.vehicle_type,
                    proposed_coefficient |-> args.proposed_coefficient,
                    pickup_zone |-> args.pickup_zone_name,
                    delivery_zone |-> args.delivery_zone_name,
                    result |-> results])

NextQuery ==
    \/ ProcessQuery
    \/ ResolveZones
    \/ Validate
    \/ Weigh
    \/ Coefs
    \/ Freight
    \/ Fee
    \/ Totals
    \/ RoundAll
    \/ Respond

SpecQuery == Init /\ [][NextQuery]_vars

(***************************************************************************)
(* app.py: POST /baogia on the module's calculator, calc.                  *)
(***************************************************************************)
\* what a ShippingCalculator object has: the class attribute, the instance
\* attribute and the methods
Attributes ==
    {"DEFAULT_CONFIG", "config", "get_km_coefficient", "get_zone_coefficient",
     "get_goods_coefficient", "get_vehicle_coefficient", "get_size_coefficient",
     "get_base_rate", "calculate_weight_from_dimensions", "get_zone_name_from_loc",
     "calculate_shipping_rate", "format_price", "process_query", "parse_user_query"}

\* calc.<name>
GetAttr(name) == IF name \in Attributes THEN Ok(name) ELSE Raise("AttributeError")

\* a key the JSON body does not have
Missing == Val("missing", 1, <<>>, <<>>)

\* the JSON bodies posted: numbers, a text that is no number, keys left out
Bodies ==
    {[key \in {k \in DOMAIN r : r[k] # Missing} |-> r[key]] :
        r \in [km         : {Missing, Num(156), Rat(1565, 10), Str},
               sokien     : {Missing, Num(2), Rat(27, 10), Str},
               trongluong : {Missing, Num(10), Num(1000), Str},
               loaihang   : {Missing, Name("Hàng dễ vỡ")}]}

\* the view function: the coercions, the call on calc, the response (500 with
\* the exception when one is raised)
baogia ==
    /\ pc = "idle"
    /\ \E data \in Bodies :
          LET loaihang   == Get(data, "loaihang", Name("Hàng tiêu dùng"))
              km         == PyFloat(Get(data, "km", Num(0)))
              sokien     == PyInt(Get(data, "sokien", Num(1)))
              trongluong == PyFloat(Get(data, "trongluong", Num(0)))
              method     == GetAttr("calculate_cost")
              exc        == FirstExc(<<km, sokien, trongluong, method>>)
          IN  probe' = <<[fn |-> "baogia", data |-> data,
                          response |->
                              IF exc # "ok" THEN [status |-> 500, exc |-> exc]
                              ELSE [status |-> 200, exc |-> "ok", loaihang |-> loaihang,
                                    km |-> km.v, sokien |-> sokien.v,
                                    trongluong |-> trongluong.v,
                                    gia |-> [method |-> method.v, km |-> km.v,
                                             weight |-> trongluong.v,
                                             goods_type |-> loaihang,
                                             zone |-> Name("Vùng còn lại")]]]>>
    /\ UNCHANGED <<config, pc, form, args, frame, results>>

SpecHttp == Init /\ [][baogia]_vars

(***************************************************************************)
(* Two threads on one calculator.  pc, form, args, frame and results are   *)
(* the locals of the thread that runs; probe holds the locals of the       *)
(* thread that waits and the last two results handed back to callers.  A   *)
(* thread can be switched out between any two steps of                     *)
(* calculate_shipping_rate; parse_user_query works on its own locals only  *)
(* and is one step.                                                        *)
(***************************************************************************)
ThreadCalls ==
    {[BaseArgs EXCEPT !.actual_weight_kg = Num(3500),
                      !.delivery_point = Text(<<"T", "P", " ", "V", "i", "n", "h">>)],
     [BaseArgs EXCEPT !.vol_length_cm = Num(300), !.vol_width_cm = Num(100),
                      !.vol_height_cm = Num(100), !.vehicle_type = Name("Fooc")]}

ThreadQueries == {<<"1", "0", " ", "k", "g">>}

\* the locals of the running thread
Locals == [pc |-> pc, form |-> form, args |-> args, frame |-> frame, results |-> results]

NoLocals ==
    [pc |-> "idle", form |-> NoForm, args |-> DefaultArgs, frame |-> NoFrame,
     results |-> NewResults]

\* a switch that leaves frame where it is, as if the intermediate values were
\* attributes of the calculator
ResumeSharedFrame(saved) ==
    /\ pc' = saved.pc
    /\ form' = saved.form
    /\ args' = saved.args
    /\ results' = saved.results
    /\ UNCHANGED frame

\* the waiting thread goes on with its own locals
Resume(saved) ==
    /\ pc' = saved.pc
    /\ form' = saved.form
    /\ args' = saved.args
    /\ frame' = saved.frame
    /\ results' = saved.results

InitThreads ==
    /\ config = "DEFAULT_CONFIG"
    /\ pc = "idle"
    /\ form = NoForm
    /\ args = DefaultArgs
    /\ frame = NoFrame
    /\ results = NewResults
    /\ probe = [other |-> NoLocals, returned |-> <<>>]

\* a thread calls calculate_shipping_rate
CallThread ==
    /\ pc = "idle"
    /\ \E a \in ThreadCalls : args' = a
    /\ form' = NoForm
    /\ frame' = NoFrame
    /\ results' = NewResults
    /\ pc' = "validate"
    /\ UNCHANGED <<probe, config>>

\* the scheduler runs the other thread; a call in flight is marked preempted
Switch ==
    /\ Resume(probe.other)
    /\ probe' = [probe EXCEPT !.other =
                    IF pc = "idle" THEN Locals
                    ELSE [Locals EXCEPT !.form = [form EXCEPT !.via = "preempted"]]]
    /\ UNCHANGED config

\* return results, to this thread's caller
ReturnThread ==
    /\ pc = "done"
    /\ probe' = [probe EXCEPT !.returned =
                    LastTwo(Append(@, [fn |-> "calculate_shipping_rate", call |-> args,
                                       out |-> results,
                                       preempted |-> form.via = "preempted"]))]
    /\ pc' = "idle"
    /\ form' = NoForm
    /\ args' = DefaultArgs
    /\ frame' = NoFrame
    /\ results' = NewResults
    /\ UNCHANGED config

\* a thread calls parse_user_query
Extract ==
    /\ pc = "idle"
    /\ \E q \in ThreadQueries :
          probe' = [probe EXCEPT !.returned =
                       LastTwo(Append(@, [fn |-> "parse_user_query", call |-> q,
                                          out |-> Parsed[q], preempted |-> FALSE]))]
    /\ UNCHANGED <<config, pc, form, args, frame, results>>

NextThreads ==
    \/ CallThread
    \/ Extract
    \/ Switch
    \/ Validate
    \/ Weigh
    \/ Coefs
    \/ Freight
    \/ Fee
    \/ Totals
    \/ RoundAll
    \/ ReturnThread

SpecThreads == InitThreads /\ [][NextThreads]_vars

(***************************************************************************)
(* One caller after another: the calculator with the previous call's       *)
(* arguments and result kept beside it.                                    *)
(***************************************************************************)
PairWeights == {Num(600), Num(999), Num(1000)}
\* no dimensions, a 100 cm cube, a 300 x 100 x 100 cm crate
PairDimensions == {<<None, None, None>>, <<Num(100), Num(100), Num(100)>>,
                   <<Num(300), Num(100), Num(100)>>}

PairCalls ==
    {[BaseArgs EXCEPT !.actual_weight_kg = w, !.vehicle_type = v,
                      !.vol_length_cm = d[1], !.vol_width_cm = d[2], !.vol_height_cm = d[3]] :
        w \in PairWeights, v \in {Name("Tải"), Name("Fooc")}, d \in PairDimensions}

CallPair ==
    /\ pc = "idle"
    /\ \E a \in PairCalls : args' = a
    /\ form' = NoForm
    /\ frame' = NoFrame
    /\ results' = NewResults
    /\ pc' = "validate"
    /\ UNCHANGED <<probe, config>>

\* return results, which the caller keeps
ReturnKept ==
    /\ pc = "done"
    /\ probe' = <<[args |-> args, results |-> results]>>
    /\ pc' = "idle"
    /\ form' = NoForm
    /\ args' = DefaultArgs
    /\ frame' = NoFrame
    /\ results' = NewResults
    /\ UNCHANGED config

NextPairs ==
    \/ CallPair
    \/ Validate
    \/ Weigh
    \/ Coefs
    \/ Freight
    \/ Fee
    \/ Totals
    \/ RoundAll
    \/ ReturnKept

SpecPairs == Init /\ [][NextPairs]_vars

(***************************************************************************)
(* Properties of calculate_shipping_rate.                                  *)
(***************************************************************************)
\* the keys of a complete price breakdown
BreakdownKeys ==
    {"error", "chargeable_weight", "volumetric_weight", "actual_weight",
     "coefficients", "base_freight", "delivery_fee", "total_cost",
     "shared_vehicle_cost", "full_vehicle_cost", "customer_price"}

MoneyKeySet == {MoneyKeys[i] : i \in DOMAIN MoneyKeys}

\* C1: calculate_shipping_rate never raises: whatever the arguments and the
\* tariff tables, no exception leaves the call, it returns a results dict, and
\* a result that is not the complete rounded breakdown reports the failure in
\* its error field.
C1_NeverRaises ==
    /\ pc # "raised"
    /\ pc = "done" =>
          /\ "error" \in DOMAIN results
          /\ results["error"] = NoError =>
                /\ DOMAIN results = BreakdownKeys
                /\ \A k \in MoneyKeySet : IsIntegral(results[k])

\* a well-formed call on a configuration without "constants" returned an
\* error result (self.config["constants"] raises KeyError)
C1_Witness ==
    /\ pc = "done"
    /\ config = "no constants"
    /\ args = BaseArgs
    /\ results["error"].prefix = ConfigError

BadField(v) == v.k \in {"none", "str", "list"} \/ (IsNumber(v) /\ PyLt(v, Num(0)))

\* C3: when distance or weight is missing, cannot be read as a number, or is
\* negative, the result is a validation error and carries no price.
C3_BadFieldRejected ==
    (pc = "done" /\ (BadField(args.distance_km) \/ BadField(args.actual_weight_kg))) =>
        /\ results["error"].prefix = ValidationError
        /\ MoneyKeySet \cap DOMAIN results = {}

\* C4: every monetary field present in a returned result is rounded to an
\* integer, in error results as well.
C4_MoneyRounded ==
    pc = "done" => \A k \in MoneyKeySet \cap DOMAIN results : IsIntegral(results[k])

\* C5: an error result carries the error alone: no weight, coefficient or
\* monetary field.
C5_ErrorAlone ==
    (pc = "done" /\ results["error"] # NoError) => DOMAIN results = {"error"}

(***************************************************************************)
(* Properties of the band lookups.                                         *)
(***************************************************************************)
\* the value a probe looks up: get_size_coefficient reads a missing dimension
\* as 0
ProbeArg(p) == IF p.fn = "size_coefficients" /\ p.value = None THEN Num(0) ELSE p.value

\* the coefficient of the band with the highest threshold that is <= v, or of
\* the band with the lowest threshold when v is below every threshold
ExpectedCoefficient(bands, v) ==
    LET AtOrBelow == {i \in DOMAIN bands : PyLe(bands[i][1], v)}
        Lowest  == CHOOSE i \in DOMAIN bands :
                      \A j \in DOMAIN bands : RCmpFin(bands[i][1], bands[j][1]) <= 0
        Highest == CHOOSE i \in AtOrBelow :
                      \A j \in AtOrBelow : RCmpFin(bands[j][1], bands[i][1]) <= 0
    IN  IF AtOrBelow = {} THEN bands[Lowest][2] ELSE bands[Highest][2]

\* C6: for every numeric value a band lookup returns, without an error, the
\* coefficient of the band with the highest threshold <= the value; a value
\* below every threshold takes the lowest band's coefficient and a value
\* beyond the last threshold takes the last band's.
C6_BandLookup ==
    \A i \in DOMAIN probe :
        probe[i].out = Ok(ExpectedCoefficient(self_config[probe[i].fn], ProbeArg(probe[i])))

\* a lookup of 0 in the table (50 -> 0.5, 100 -> 0.7), below every threshold,
\* returned the lowest band's 0.5
C6_Witness ==
    \E i \in DOMAIN probe :
        /\ config = "high floor bands"
        /\ probe[i].value = Num(0)
        /\ probe[i].out = Ok(Rat(5, 10))

\* the table lists its bands by ascending threshold
SortedAscending(bands) ==
    \A i, j \in DOMAIN bands : i < j => RCmpFin(bands[i][1], bands[j][1]) < 0

\* a band with a higher threshold never has a lower coefficient
CoefficientsRise(bands) ==
    \A i, j \in DOMAIN bands :
        RCmpFin(bands[i][1], bands[j][1]) <= 0 => RCmpFin(bands[i][2], bands[j][2]) <= 0

\* two lookups in the same table, the lower value first, do not fall
Monotone(p, q) ==
    (p.fn = q.fn /\ PyLe(ProbeArg(p), ProbeArg(q))) => PyLe(p.out.v, q.out.v)

\* a lookup of exactly a threshold returns that band's coefficient
AtThreshold(p) ==
    \A b \in DOMAIN self_config[p.fn] :
        PyEq(ProbeArg(p), self_config[p.fn][b][1]) => p.out.v = self_config[p.fn][b][2]

\* C7 as stated: for every table sorted ascending by threshold the lookup is
\* monotone non-decreasing in the value, and a value at a threshold takes
\* that threshold's coefficient.
C7_MonotoneWhenSorted ==
    /\ \A i, j \in DOMAIN probe :
          SortedAscending(self_config[probe[i].fn]) => Monotone(probe[i], probe[j])
    /\ \A i \in DOMAIN probe : AtThreshold(probe[i])

\* C7: for every table whose coefficients do not fall as the thresholds rise
\* the lookup is monotone non-decreasing in the value, and in every table a
\* value at a threshold takes that threshold's coefficient.
C7_MonotoneWhenRising ==
    /\ \A i, j \in DOMAIN probe :
          CoefficientsRise(self_config[probe[i].fn]) => Monotone(probe[i], probe[j])
    /\ \A i \in DOMAIN probe : AtThreshold(probe[i])

\* in the embedded distance table 49.99 km took 0.35 and then 100 km, a
\* threshold, took 0.4
C7_Witness ==
    /\ config = "DEFAULT_CONFIG"
    /\ Len(probe) = 2
    /\ probe[1] = [fn |-> "km_coefficients", value |-> Rat(4999, 100),
                   out |-> Ok(Rat(35, 100))]
    /\ probe[2] = [fn |-> "km_coefficients", value |-> Num(100),
                   out |-> Ok(Rat(4, 10))]

(***************************************************************************)
(* Properties of the name lookups and of the zone resolution.              *)
(***************************************************************************)
\* the coefficient of a name listed in the table, 1.0 for any other name
\* and for None
ListedOrOne(table, name) ==
    IF name.k = "str" /\ name.s \in DOMAIN table THEN table[name.s] ELSE Num(1)

\* the call differs from the well-formed request in its four names only,
\* each a str or None
NamesOnly ==
    /\ [args EXCEPT !.pickup_zone_name = NameNone, !.delivery_zone_name = NameNone,
                    !.goods_type = NameNone, !.vehicle_type = NameNone]
         = [BaseArgs EXCEPT !.pickup_zone_name = NameNone, !.delivery_zone_name = NameNone,
                            !.goods_type = NameNone, !.vehicle_type = NameNone]
    /\ \A n \in {args.pickup_zone_name, args.delivery_zone_name, args.goods_type,
                 args.vehicle_type} : n.k \in {"str", "none"}

\* C8: zone, goods and vehicle names are looked up by exact match; a name
\* that is not listed, None included, gets 1.0, and a call with unknown names
\* succeeds.
C8_NameLookups ==
    /\ "coefficients" \in DOMAIN results =>
          LET c == results["coefficients"]
          IN  /\ PyEq(c.zone,
                      PyMax(ListedOrOne(self_config["zone_coefficients"], args.pickup_zone_name),
                            ListedOrOne(self_config["zone_coefficients"], args.delivery_zone_name)))
              /\ PyEq(c.goods, ListedOrOne(self_config["goods_coefficients"], args.goods_type))
              /\ PyEq(c.vehicle, ListedOrOne(self_config["vehicle_coefficients"], args.vehicle_type))
    /\ (pc = "done" /\ NamesOnly) => results["error"] = NoError

\* a call with the unlisted names "Vùng 9" and "Hàng lạ" and no vehicle
\* returned a price computed with 1.0 for each
C8_Witness ==
    /\ pc = "done"
    /\ results["error"] = NoError
    /\ args.pickup_zone_name = Name("Vùng 9")
    /\ args.delivery_zone_name = NameNone
    /\ args.goods_type = Name("Hàng lạ")
    /\ args.vehicle_type = NameNone
    /\ PyEq(results["coefficients"].zone, Num(1))
    /\ PyEq(results["coefficients"].goods, Num(1))
    /\ PyEq(results["coefficients"].vehicle, Num(1))

\* key occurs in text, letter case ignored
OccursIn(key, text) ==
    \E off \in 0..(Len(text) - Len(key)) :
        \A j \in 1..Len(key) : LowerChar(text[off + j]) = LowerChar(key[j])

\* the zone of the first key of the mapping, in table order, that occurs in
\* the location; the default zone when none does or the location is empty
\* or None
FirstListedZone(zone_map, loc) ==
    LET hits == IF loc.k = "text" THEN {i \in DOMAIN zone_map : OccursIn(zone_map[i].key, loc.s)}
                ELSE {}
    IN  IF hits = {} THEN "Vùng còn lại"
        ELSE zone_map[CHOOSE i \in hits : \A j \in hits : i <= j].zone

\* C9: get_zone_name_from_loc returns the zone of the first key, in table
\* order, that occurs in the location ignoring case, and the default zone
\* "Vùng còn lại" when no key occurs or the location is empty or None.
C9_ZoneFromLocation ==
    (form.via = "loc" /\ pc \notin {"idle", "resolve"}) =>
        /\ args.pickup_zone_name =
              Name(FirstListedZone(self_config["zone_mapping"], form.pickup_loc))
        /\ args.delivery_zone_name =
              Name(FirstListedZone(self_config["zone_mapping"], form.delivery_loc))

\* "Đà Nẵng - Hà Nội" holds two keys and resolved to the zone of "Hà Nội",
\* the earlier key of the mapping
C9_Witness ==
    /\ pc = "validate"
    /\ form.via = "loc"
    /\ form.pickup_loc = Text(<<"DD", "à", " ", "N", "ẵ", "n", "g", " ", "-", " ",
                                "H", "à", " ", "N", "ộ", "i">>)
    /\ args.pickup_zone_name = Name("Vùng 1")

(***************************************************************************)
(* Properties of the chargeable weight.                                    *)
(***************************************************************************)
\* the result is a price breakdown
Succeeded == pc = "done" /\ results["error"] = NoError

\* C10 as stated: the chargeable weight is the larger of the actual total
\* and the volumetric total, with a floor of 1: it is >= 1 in every
\* successful result.
C10_AtLeastOne ==
    Succeeded => PyGe(results["chargeable_weight"], Num(1))

\* C10: the chargeable weight is the larger of the two totals when the
\* volumetric total is positive and the actual total otherwise, replaced by 1
\* only when that is zero or negative: it is > 0, and can be below 1, in
\* every successful result.
C10_Positive ==
    Succeeded =>
       LET cw == results["chargeable_weight"]
           at == results["actual_weight"]
           vt == results["volumetric_weight"]
       IN  /\ PyGt(cw, Num(0))
           /\ PyGt(vt, Num(0)) =>
                 \/ PyEq(cw, PyMax(at, vt)) /\ PyGe(cw, at) /\ PyGe(cw, vt)
                 \/ PyEq(cw, Num(1)) /\ PyLe(PyMax(at, vt), Num(0))
           /\ ~PyGt(vt, Num(0)) =>
                 \/ PyEq(cw, at)
                 \/ PyEq(cw, Num(1)) /\ PyLe(at, Num(0))

\* a parcel of 0.5 kg without dimensions was priced at a chargeable weight
\* of 0.5
C10_Witness ==
    /\ Succeeded
    /\ args.actual_weight_kg = Rat(1, 2)
    /\ PyEq(results["chargeable_weight"], Rat(1, 2))

\* the call passes no length, width and height, and a whole quantity >= 1
NoDimensions ==
    /\ args.vol_length_cm = None /\ args.vol_width_cm = None /\ args.vol_height_cm = None
    /\ IsIntegral(args.quantity) /\ PyGe(args.quantity, Num(1))
    /\ IsNumber(args.actual_weight_kg)

\* the volumetric weight is 0 and the chargeable weight is weight * quantity
ChargedByActualWeight ==
    /\ IsZero(results["volumetric_weight"])
    /\ PyEq(results["chargeable_weight"], PyMul(args.actual_weight_kg, args.quantity))

\* C11 as stated: without dimensions the volumetric weight is 0 and the
\* chargeable weight is actual weight * quantity, for every actual weight >= 0
\* and quantity >= 1.
C11_ActualWeightFromZero ==
    (Succeeded /\ NoDimensions /\ PyGe(args.actual_weight_kg, Num(0))) =>
        ChargedByActualWeight

\* C11: without dimensions the volumetric weight is 0 and the chargeable
\* weight is actual weight * quantity, for every actual weight > 0 and
\* quantity >= 1; an actual weight of 0 is charged as 1.
C11_ActualWeightAboveZero ==
    /\ (Succeeded /\ NoDimensions /\ PyGt(args.actual_weight_kg, Num(0))) =>
          ChargedByActualWeight
    /\ (Succeeded /\ NoDimensions /\ IsZero(args.actual_weight_kg)) =>
          /\ IsZero(results["volumetric_weight"])
          /\ PyEq(results["chargeable_weight"], Num(1))

\* two parcels of 10 kg without dimensions were charged as 20 kg
C11_Witness ==
    /\ Succeeded
    /\ NoDimensions
    /\ args.actual_weight_kg = Num(10)
    /\ args.quantity = Num(2)
    /\ PyEq(results["chargeable_weight"], Num(20))

(***************************************************************************)
(* get_base_rate called directly, the last two calls kept in probe.        *)
(***************************************************************************)
RateProbeValues ==
    {Num(-3), Num(0), Rat(1, 2), Num(999), Rat(99999, 100), Num(1000), Num(2999),
     Num(3000), Num(9999), Num(10000), Num(20000), Inf, NegInf, NaN}

LookupRate ==
    /\ \E v \in RateProbeValues :
          probe' = LastTwo(Append(probe, [fn |-> "base_rate", value |-> v,
                                          out |-> Ok(get_base_rate(v))]))
    /\ UNCHANGED <<config, pc, form, args, frame, results>>

SpecRate == Init /\ [][LookupRate]_vars

\* the lower ends of the three heavier brackets
BracketBounds == {Num(1000), Num(3000), Num(10000)}

\* the bracket of a weight, 0 the lightest: how many bounds it has reached
BracketOf(v) == Cardinality({b \in BracketBounds : PyGe(v, b)})

\* the per-kg rate of each bracket, lightest first
BracketRates == <<Rat(523078, 100), Rat(313078, 100), Rat(218078, 100), Rat(120078, 100)>>

\* C12: get_base_rate is a step function over four brackets (< 1000,
\* [1000, 3000), [3000, 10000), >= 10000): every weight takes the rate of the
\* one bracket it falls in, a weight at a boundary takes the heavier
\* bracket's rate, and a heavier bracket's rate is strictly lower.
C12_BaseRateBrackets ==
    \A i, j \in DOMAIN probe :
        (probe[i].value # NaN /\ probe[j].value # NaN) =>
            /\ probe[i].out = Ok(BracketRates[BracketOf(probe[i].value) + 1])
            /\ BracketOf(probe[i].value) < BracketOf(probe[j].value) =>
                  PyGt(probe[i].out.v, probe[j].out.v)

\* 999.99 kg took 5230.78 and then 1000 kg, a boundary, took 3130.78
C12_Witness ==
    /\ Len(probe) = 2
    /\ probe[1] = [fn |-> "base_rate", value |-> Rat(99999, 100),
                   out |-> Ok(Rat(523078, 100))]
    /\ probe[2] = [fn |-> "base_rate", value |-> Num(1000),
                   out |-> Ok(Rat(313078, 100))]

(***************************************************************************)
(* The price formula.                                                      *)
(***************************************************************************)
\* the product of a non-empty sequence of numbers, taken left to right
RECURSIVE Product(_)
Product(s) ==
    IF Len(s) = 1 THEN s[1] ELSE PyMul(Product(SubSeq(s, 1, Len(s) - 1)), s[Len(s)])

\* a dimension of the call, 0 when absent
Dimensions == {IF d = None THEN Num(0) ELSE d :
                  d \in {args.vol_length_cm, args.vol_width_cm, args.vol_height_cm}}

\* the largest of the three dimensions
LargestDimension == CHOOSE d \in Dimensions : \A e \in Dimensions : PyLe(e, d)

\* the first factors of both prices: chargeable weight, distance coefficient,
\* zone coefficient and goods coefficient
SharedFactors ==
    <<results["chargeable_weight"],
      ExpectedCoefficient(self_config["km_coefficients"], args.distance_km),
      PyMax(ListedOrOne(self_config["zone_coefficients"], args.pickup_zone_name),
            ListedOrOne(self_config["zone_coefficients"], args.delivery_zone_name)),
      ListedOrOne(self_config["goods_coefficients"], args.goods_type)>>

\* the proposed multiplier, 1.0 when None
ProposedMultiplier ==
    IF args.proposed_coefficient = None THEN Num(1) ELSE args.proposed_coefficient

\* C13: in every successful result base freight is the rounding of
\* chargeable weight x distance coefficient x zone coefficient x goods
\* coefficient x size coefficient x proposed multiplier x base rate, with the
\* zone coefficient the larger of the pickup and delivery zones', the size
\* coefficient looked up on the largest dimension (0 when absent) and the
\* base rate the bracket rate of the chargeable weight; the vehicle
\* coefficient is not a factor.
C13_BaseFreight ==
    (Succeeded /\ NaN \notin Dimensions) =>
        PyEq(results["base_freight"],
             PyRound(Product(SharedFactors \o
                 <<ExpectedCoefficient(self_config["size_coefficients"], LargestDimension),
                   ProposedMultiplier,
                   BracketRates[BracketOf(results["chargeable_weight"]) + 1]>>)).v)

\* a Fooc (vehicle coefficient 2.25) carrying fragile goods (1.5) out of
\* "Vùng 5" (1.3) over 156 km (0.45) was priced without the 2.25
C13_Witness ==
    /\ Succeeded
    /\ args.vehicle_type = Name("Fooc")
    /\ args.goods_type = Name("Hàng dễ vỡ")
    /\ args.pickup_zone_name = Name("Vùng 5")
    /\ PyEq(results["coefficients"].vehicle, Rat(225, 100))
    /\ PyEq(results["base_freight"],
            RoundFin(Product(<<Num(10), Rat(45, 100), Rat(13, 10), Rat(15, 10),
                               Rat(523078, 100)>>)))

\* the text is "tp vinh" in any letter case between two runs of whitespace
NamesTpVinh(p) ==
    /\ p.k = "text"
    /\ \E i, j \in 0..Len(p.s) :
          /\ i + Len(TpVinh) + j = Len(p.s)
          /\ \A k \in 1..i : p.s[k] \in Whitespace
          /\ \A k \in 1..j : p.s[Len(p.s) + 1 - k] \in Whitespace
          /\ \A k \in 1..Len(TpVinh) : LowerChar(p.s[i + k]) = TpVinh[k]

\* C14: the delivery surcharge is base amount x rate exactly when the
\* delivery-point text, lower-cased and trimmed, is "tp vinh", and 0 for
\* every other text, the empty text, None and a text that only contains
\* "tp vinh" included; a call with a text or None as delivery point gets a
\* surcharge.
C14_DeliverySurcharge ==
    /\ "delivery_fee" \in DOMAIN results =>
          PyEq(results["delivery_fee"],
               IF NamesTpVinh(args.delivery_point)
               THEN PyMul(self_config["constants"]["delivery_vinh_base"],
                          self_config["constants"]["delivery_vinh_rate"])
               ELSE Num(0))
    /\ (Succeeded /\ args.delivery_point.k \in {"text", "none"}) =>
          "delivery_fee" \in DOMAIN results

\* " TP Vinh " was charged 5445000 x 0.18 = 980100
C14_Witness ==
    /\ Succeeded
    /\ args.delivery_point = Text(<<" ", "T", "P", " ", "V", "i", "n", "h", " ">>)
    /\ results["delivery_fee"] = Num(980100)

\* "TP Vinh, Nghệ An", which only contains the name, was charged nothing
C14_ContainsWitness ==
    /\ Succeeded
    /\ Len(args.delivery_point.s) > Len(TpVinh)
    /\ OccursIn(TpVinh, Lower(args.delivery_point.s))
    /\ ~NamesTpVinh(args.delivery_point)
    /\ results["delivery_fee"] = Num(0)

\* C15: in every successful result the reported total cost is the reported
\* base freight plus the reported delivery surcharge, on the rounded fields.
C15_TotalIsSum ==
    Succeeded =>
        PyEq(results["total_cost"],
             PyAdd(results["base_freight"], results["delivery_fee"]))

\* the previous call, when it and the call that has just returned both
\* succeeded
HavePair ==
    /\ Succeeded
    /\ probe # <<>>
    /\ probe[1].results["error"] = NoError

\* the two calls have the same arguments but for the three dimensions
SameButDimensions(a, b) ==
    [a EXCEPT !.vol_length_cm = None, !.vol_width_cm = None, !.vol_height_cm = None]
      = [b EXCEPT !.vol_length_cm = None, !.vol_width_cm = None, !.vol_height_cm = None]

\* C16: in every successful result full-vehicle cost is the rounding of
\* chargeable weight x distance coefficient x zone coefficient x goods
\* coefficient x vehicle coefficient x proposed multiplier x full-vehicle
\* rate: the vehicle coefficient stands where base freight has the size
\* coefficient and the fixed rate where it has the bracket rate, so two
\* requests that differ only in size coefficient get the same full-vehicle
\* cost.
C16_FullVehicleCost ==
    /\ Succeeded =>
          PyEq(results["full_vehicle_cost"],
               PyRound(Product(SharedFactors \o
                   <<ListedOrOne(self_config["vehicle_coefficients"], args.vehicle_type),
                     ProposedMultiplier,
                     self_config["constants"]["full_vehicle_rate"]>>)).v)
    /\ (/\ HavePair
        /\ SameButDimensions(args, probe[1].args)
        /\ results["chargeable_weight"] = probe[1].results["chargeable_weight"])
       => results["full_vehicle_cost"] = probe[1].results["full_vehicle_cost"]

\* 600 kg on a Fooc in a 300 cm crate (size coefficient 1.3) after the same
\* 600 kg without dimensions (1.0): base freight differs, full-vehicle cost
\* is 600 x 0.45 x 2.25 x 4076.05 both times
C16_Witness ==
    /\ HavePair
    /\ SameButDimensions(args, probe[1].args)
    /\ args.vehicle_type = Name("Fooc")
    /\ results["chargeable_weight"] = probe[1].results["chargeable_weight"]
    /\ PyEq(results["coefficients"].size, Rat(13, 10))
    /\ PyEq(probe[1].results["coefficients"].size, Num(1))
    /\ results["base_freight"] # probe[1].results["base_freight"]
    /\ results["full_vehicle_cost"] = RoundFin(Product(<<Num(600), Rat(45, 100),
                                           Rat(225, 100), Rat(407605, 100)>>))

\* the two calls have the same arguments but for the actual weight
SameButWeight(a, b) ==
    [a EXCEPT !.actual_weight_kg = None] = [b EXCEPT !.actual_weight_kg = None]

\* C20: with distance, zones, goods, size and multiplier fixed, base freight
\* and total cost do not decrease as the chargeable weight grows, across a
\* bracket boundary too: the heavier of two shipments is never the cheaper.
C20_FreightMonotone ==
    (/\ HavePair
     /\ SameButWeight(args, probe[1].args)
     /\ PyLe(probe[1].results["chargeable_weight"], results["chargeable_weight"]))
    => /\ PyLe(probe[1].results["base_freight"], results["base_freight"])
       /\ PyLe(probe[1].results["total_cost"], results["total_cost"])

(***************************************************************************)
(* Extraction from free text.                                              *)
(***************************************************************************)
\* the queries parsed so far that the caller still holds
Parses == {i \in DOMAIN probe : probe[i].fn = "parse_user_query"}

\* C18: the confidence parse_user_query returns lies in [0, 1], for every
\* text, the one in which every pattern matches included
C18_ConfidenceInUnitInterval ==
    \A i \in Parses :
        probe[i].out.exc = "ok" =>
            /\ PyGe(probe[i].out.v.confidence, Num(0))
            /\ PyLe(probe[i].out.v.confidence, Num(1))

\* C19: parse_user_query fails for no text, and sets the three dimensions
\* together or not at all
C19_NeverFails ==
    \A i \in Parses :
        /\ probe[i].out.exc = "ok"
        /\ LET dims == probe[i].out.v.dimensions
           IN  \/ dims.length = None /\ dims.width = None /\ dims.height = None
               \/ dims.length # None /\ dims.width # None /\ dims.height # None

\* a text gave distance and weight but neither a goods nor a vehicle label
Unlabelled(parsed_data) ==
    /\ parsed_data.distance # None
    /\ parsed_data.weight # None
    /\ parsed_data.goods_type = TNone
    /\ parsed_data.vehicle_type = TNone

\* C21: process_query prices an unlabelled text with its default_goods_type
\* and default_vehicle_type arguments: they are what calculate_shipping_rate
\* is called with and what the quote reports
C21_DefaultsPriced ==
    /\ (form.via = "query" /\ Unlabelled(form.parsed_data)) =>
           /\ args.goods_type = form.default_goods_type
           /\ args.vehicle_type = form.default_vehicle_type
    /\ \A i \in DOMAIN probe :
           (/\ probe[i].fn = "process_query"
            /\ probe[i].reply.kind = "Báo giá"
            /\ Unlabelled(Parsed[probe[i].query].v)) =>
               /\ probe[i].reply.goods_type = probe[i].default_goods_type
               /\ probe[i].reply.vehicle_type = probe[i].default_vehicle_type

(***************************************************************************)
(* The HTTP endpoint.                                                      *)
(***************************************************************************)
\* km, sokien and trongluong are numbers where the body has them
NumericBody(data) ==
    \A key \in {"km", "sokien", "trongluong"} \cap DOMAIN data : data[key].k = "fin"

\* C22: a POST /baogia with numeric km, trongluong and sokien is answered with
\* a 'gia' that is the result of the calculator's calculate_shipping_rate
C22_PriceFromEngine ==
    \A i \in DOMAIN probe :
        (probe[i].fn = "baogia" /\ NumericBody(probe[i].data)) =>
            /\ probe[i].response.status = 200
            /\ probe[i].response.gia.method = "calculate_shipping_rate"

(***************************************************************************)
(* Concurrent use.                                                         *)
(***************************************************************************)
\* C17: on one shared calculator, whatever the calls and however two threads
\* interleave, a call returns what the same call returns when nothing
\* interleaves with it, and the configuration stays the one the calculator
\* was built with
C17_CallsIndependent ==
    /\ config = "DEFAULT_CONFIG"
    /\ \A i, j \in DOMAIN probe.returned :
           (/\ probe.returned[i].fn = probe.returned[j].fn
            /\ probe.returned[i].call = probe.returned[j].call) =>
               probe.returned[i].out = probe.returned[j].out

\* the same priced call returned twice, once switched out on the way and once
\* run through, while the other thread has a call in flight
C17_Witness ==
    /\ Len(probe.returned) = 2
    /\ probe.returned[1].fn = "calculate_shipping_rate"
    /\ probe.returned[2].fn = "calculate_shipping_rate"
    /\ probe.returned[1].call = probe.returned[2].call
    /\ probe.returned[1].preempted /\ ~probe.returned[2].preempted
    /\ probe.returned[1].out["error"] = NoError
    /\ probe.returned[1].out = probe.returned[2].out
    /\ probe.other.pc \notin {"idle", "done"}

====
